---- MODULE Spec2Model ----
(***************************************************************************)
(* The lungo engine (engine.go) over its catalog (data.go).                *)
(*                                                                         *)
(* Go objects live on a heap: a *Data, a *Namespace and a document         *)
(* (bsonkit.Doc) are addresses into heapData, heapNs and heapDoc, so that  *)
(* sharing between a catalog and its clone, and writes through a shared    *)
(* pointer, are visible.  Address 0 is nil.                                *)
(***************************************************************************)
EXTENDS Integers, Sequences, FiniteSets, TLC

VARIABLES
    heapData,   \* address -> Data.Namespaces (a map name -> *Namespace)
    heapNs,     \* address -> Namespace {Name, Documents, Indexes, primaryIndex}
    heapDoc,    \* address -> document content
    data,       \* engine.data
    stored,     \* what Store.Store persisted last (the serialised catalog)
    last,       \* history: the last engine call and what it returned
    nops,       \* history: number of engine calls made
    pc,         \* per thread: position in its engine call
    mutex,      \* engine.mutex: 0 when free, else the thread holding it
    top,        \* per thread: the engine call it makes
    tclone,     \* per thread: the clone staged by its call
    tret,       \* per thread: what its call returned
    kcall,      \* the call of a bsonkit or mongokit function, with its arguments
    kret,       \* what that call returned
    col,        \* per caller: the method of Collection it is in, and where
    txns,       \* Engine: the state of every transaction begun, by number
    writer,     \* Engine: the transaction that holds the write mutex, or 0
    ncalls      \* history: number of calls of methods of Collection

vars == <<heapData, heapNs, heapDoc, data, stored, last, nops,
          pc, mutex, top, tclone, tret, kcall, kret, col, txns, writer, ncalls>>

engineVars == <<heapData, heapNs, heapDoc, data, stored>>
threadVars == <<pc, mutex, top, tclone, tret>>
kitVars == <<kcall, kret>>
colVars == <<col, txns, writer, ncalls>>

----------------------------------------------------------------------------
(* Bounds *)

MaxOps == 2
NumThreads == 2
\* the longest list handed to Sort and Difference, and the documents there are
MaxLen == 3
\* the longest list of a $and or $or
MaxItems == 2

----------------------------------------------------------------------------
(* Values *)

\* bsonkit.Missing: the value Get returns for an absent field
Missing == 0

\* the nil pointer
Nil == 0

\* the namespaces used: "a.c" and "ab.c" (strings as character sequences)
NsNames == { <<"a", ".", "c">>, <<"a", "b", ".", "c">> }
DbNames == { <<"a">>, <<"a", "b">> }

\* the values of the fields _id and x
IdValues == {1, 2}
XValues == {0, 1}

\* a document: its _id (or Missing) and its field x
Doc(id, x) == [id |-> id, x |-> x]

\* bsonkit.Get(doc, "_id")
Get(h, doc, path) == IF path = "id" THEN h.heapDoc[doc].id ELSE h.heapDoc[doc].x

\* the engine state as one value
H == [heapData |-> heapData, heapNs |-> heapNs, heapDoc |-> heapDoc,
      data |-> data, stored |-> stored]

Range(s) == { s[i] : i \in 1..Len(s) }

\* strings.Split(s, ".")[0]
RECURSIVE SplitHead(_)
SplitHead(s) ==
    IF s = <<>> \/ Head(s) = "." THEN <<>>
    ELSE <<Head(s)>> \o SplitHead(Tail(s))

\* strings.HasPrefix(s, prefix)
HasPrefix(s, prefix) ==
    Len(prefix) <= Len(s) /\ SubSeq(s, 1, Len(prefix)) = prefix

\* strings.TrimPrefix(s, prefix)
TrimPrefix(s, prefix) ==
    IF HasPrefix(s, prefix) THEN SubSeq(s, Len(prefix) + 1, Len(s)) ELSE s

----------------------------------------------------------------------------
(* mongokit.Index: the primary index, a set of entries (key, document)     *)

\* mongokit.NewIndex(true, {_id})
NewIndex == {}

\* Index.Add: inserts, duplicates of a key allowed
IndexAdd(h, idx, doc) == idx \cup { [key |-> Get(h, doc, "id"), doc |-> doc] }

\* Index.Set: false when a different document holds an equal key
IndexSetOk(h, idx, doc) ==
    ~ \E e \in idx : e.key = Get(h, doc, "id") /\ e.doc # doc

\* Index.Delete: by key and identity
IndexDelete(h, idx, doc) ==
    idx \ { [key |-> Get(h, doc, "id"), doc |-> doc] }

\* Index.Clone: copies the map, shares the documents
IndexClone(idx) == idx

----------------------------------------------------------------------------
(* mongokit.Filter and mongokit.Update                                     *)

\* a query: {} | {_id: v} | {x: 1} | a query with an unknown operator
Queries ==
    { [f |-> "all", v |-> 0], [f |-> "bad", v |-> 0], [f |-> "x", v |-> 1] }
    \cup { [f |-> "id", v |-> v] : v \in IdValues }

Matches(content, q) ==
    CASE q.f = "all" -> TRUE
      [] q.f = "id"  -> content.id = q.v
      [] q.f = "x"   -> content.x = q.v
      [] OTHER       -> FALSE

RECURSIVE FilterIndex(_, _, _, _, _)
FilterIndex(h, list, q, limit, i) ==
    IF i > Len(list) THEN <<>>
    ELSE IF Matches(h.heapDoc[list[i]], q)
         THEN IF limit = 1 THEN <<i>>
              ELSE <<i>> \o FilterIndex(h, list, q, IF limit = 0 THEN 0 ELSE limit - 1, i + 1)
         ELSE FilterIndex(h, list, q, limit, i + 1)

\* mongokit.Filter(list, query, limit): the matching documents in list
\* order, their positions, and an error for a bad query; limit 0 = no limit
Filter(h, list, q, limit) ==
    IF q.f = "bad"
    THEN [list |-> <<>>, index |-> <<>>, err |-> "unknown operator"]
    ELSE LET ix == FilterIndex(h, list, q, limit, 1)
         IN [list |-> [k \in 1..Len(ix) |-> list[ix[k]]], index |-> ix, err |-> ""]

\* an update: {$set: {x: 1}} | {$set: {_id: 2}} | an unknown operator
Updates ==
    { [op |-> "bad", f |-> "x", v |-> 0],
      [op |-> "set", f |-> "x", v |-> 1],
      [op |-> "set", f |-> "id", v |-> 2] }

ApplyUpdate(content, u) ==
    IF u.f = "id" THEN [content EXCEPT !.id = u.v] ELSE [content EXCEPT !.x = u.v]

\* mongokit.Update(list, update, false): applies the update to every
\* document of list, in place
Update(h, list, u) ==
    IF u.op = "bad"
    THEN [h |-> h, err |-> "unknown operator"]
    ELSE [h |-> [h EXCEPT !.heapDoc =
                    [a \in 1..Len(h.heapDoc) |->
                        IF a \in Range(list) THEN ApplyUpdate(h.heapDoc[a], u)
                        ELSE h.heapDoc[a]]],
          err |-> ""]

\* bsonkit.CloneList: a new document per element, with the same content
CloneList(h, list) ==
    [h |-> [h EXCEPT !.heapDoc = h.heapDoc \o [k \in 1..Len(list) |-> h.heapDoc[list[k]]]],
     list |-> [k \in 1..Len(list) |-> Len(h.heapDoc) + k]]

----------------------------------------------------------------------------
(* data.go                                                                 *)

\* Namespace.Prepare: an empty document list when there is none, and a
\* primary index filled from the documents with Add
RECURSIVE PrepareFill(_, _, _, _)
PrepareFill(h, idx, docs, i) ==
    IF i > Len(docs) THEN idx
    ELSE PrepareFill(h, IndexAdd(h, idx, docs[i]), docs, i + 1)

Prepare(h, n) ==
    [n EXCEPT !.primaryIndex = PrepareFill(h, NewIndex, n.Documents, 1)]

\* NewNamespace(name): allocates the namespace and prepares it
NewNamespace(h, name) ==
    [h |-> [h EXCEPT !.heapNs = Append(h.heapNs,
                Prepare(h, [Name |-> name, Documents |-> <<>>, Indexes |-> <<>>,
                            primaryIndex |-> NewIndex]))],
     ns |-> Len(h.heapNs) + 1]

\* Data.Clone: a new Data whose map holds the same *Namespace pointers
DataClone(h, d) ==
    [h |-> [h EXCEPT !.heapData = Append(h.heapData, h.heapData[d])],
     data |-> Len(h.heapData) + 1]

\* Namespace.Clone: a new Namespace with copies of the document list, the
\* index specs and the primary index; the documents are shared
NamespaceClone(h, n) ==
    [h |-> [h EXCEPT !.heapNs = Append(h.heapNs,
                [Name |-> h.heapNs[n].Name,
                 Documents |-> h.heapNs[n].Documents,
                 Indexes |-> h.heapNs[n].Indexes,
                 primaryIndex |-> IndexClone(h.heapNs[n].primaryIndex)])],
     ns |-> Len(h.heapNs) + 1]

\* d.Namespaces[name], nil when absent
NsOf(h, d, name) ==
    IF name \in DOMAIN h.heapData[d] THEN h.heapData[d][name] ELSE Nil

\* d.Namespaces[name] = n
SetNs(h, d, name, n) ==
    [h EXCEPT !.heapData[d] =
        [k \in (DOMAIN h.heapData[d]) \cup {name} |->
            IF k = name THEN n ELSE h.heapData[d][k]]]

\* what Store.Store writes: per namespace its documents' contents
Serialize(h, d) ==
    [name \in DOMAIN h.heapData[d] |->
        [i \in 1..Len(h.heapNs[h.heapData[d][name]].Documents) |->
            h.heapDoc[h.heapNs[h.heapData[d][name]].Documents[i]]]]

----------------------------------------------------------------------------
(* engine.go: the write operations.  Each is split where the code is: the  *)
(* part that stages the change on a clone (insertStage, replaceStage,      *)
(* updateStage, deleteStage), and the part that stores the clone and makes *)
(* it current (storeAndSet).                                               *)

\* what a staging part hands on: the heap, the staged clone (Nil when the
\* call returns before staging), and the return values
Staged(h, clone, err, matched, modified, n) ==
    [h |-> h, clone |-> clone, err |-> err,
     matched |-> matched, modified |-> modified, n |-> n]

\* what a call returns: the heap after it, its error ("" is nil), whether
\* Store.Store ran ("none", "ok", "fail"), and its results
Returned(h, err, store, list, matched, modified, n) ==
    [h |-> h, err |-> err, store |-> store, list |-> list,
     matched |-> matched, modified |-> modified, n |-> n]

\* the answers Store.Store can give to a call that staged s: it is only
\* called when s holds a clone
StoreAnswers(s) == IF s.clone = Nil THEN {TRUE} ELSE BOOLEAN

\* storeAndSet with "e.data = clone" moved before the store's answer is looked at
storeAndSet_setFirst(s, storeOk) ==
    IF s.clone = Nil
    THEN Returned(s.h, s.err, "none", <<>>, s.matched, s.modified, s.n)
    ELSE IF ~storeOk
    THEN Returned([s.h EXCEPT !.data = s.clone], "store failed", "fail", <<>>, 0, 0, 0)
    ELSE Returned([s.h EXCEPT !.stored = Serialize(s.h, s.clone), !.data = s.clone],
                  "", "ok", <<>>, s.matched, s.modified, s.n)

\* err := e.store.Store(clone); if err != nil { return err }; e.data = clone
storeAndSet(s, storeOk) ==
    IF s.clone = Nil
    THEN Returned(s.h, s.err, "none", <<>>, s.matched, s.modified, s.n)
    ELSE IF ~storeOk
    THEN Returned(s.h, "store failed", "fail", <<>>, 0, 0, 0)
    ELSE Returned([s.h EXCEPT !.stored = Serialize(s.h, s.clone), !.data = s.clone],
                  "", "ok", <<>>, s.matched, s.modified, s.n)

\* insertDocs with the result of Set ignored
RECURSIVE insertDocs_unchecked(_, _, _, _)
insertDocs_unchecked(h, n, list, i) ==
    IF i > Len(list) THEN [h |-> h, err |-> ""]
    ELSE insertDocs_unchecked(
            [h EXCEPT !.heapNs[n].primaryIndex = IndexAdd(h, @, list[i]),
                      !.heapNs[n].Documents = Append(@, list[i])],
            n, list, i + 1)

\* insert, "add documents": Set into the primary index, append to Documents
RECURSIVE insertDocs(_, _, _, _)
insertDocs(h, n, list, i) ==
    IF i > Len(list) THEN [h |-> h, err |-> ""]
    ELSE IF ~IndexSetOk(h, h.heapNs[n].primaryIndex, list[i])
    THEN [h |-> h, err |-> "document with same _id exists already"]
    ELSE insertDocs(
            [h EXCEPT !.heapNs[n].primaryIndex = IndexAdd(h, @, list[i]),
                      !.heapNs[n].Documents = Append(@, list[i])],
            n, list, i + 1)

\* insertNamespace with the existing namespace used as it is, not cloned
insertNamespace_shared(h, clone, ns) ==
    IF NsOf(h, clone, ns) = Nil
    THEN LET c == NewNamespace(h, ns) IN [h |-> SetNs(c.h, clone, ns, c.ns), ns |-> c.ns]
    ELSE [h |-> h, ns |-> NsOf(h, clone, ns)]

\* insert, "create or clone namespace"
insertNamespace(h, clone, ns) ==
    IF NsOf(h, clone, ns) = Nil
    THEN LET c == NewNamespace(h, ns) IN [h |-> SetNs(c.h, clone, ns, c.ns), ns |-> c.ns]
    ELSE LET c == NamespaceClone(h, NsOf(h, clone, ns))
         IN [h |-> SetNs(c.h, clone, ns, c.ns), ns |-> c.ns]

\* insertStage without "check ids"
insertStage_noIdCheck(h, ns, list) ==
    LET c == DataClone(h, h.data)
        n == insertNamespace(c.h, c.data, ns)
        a == insertDocs(n.h, n.ns, list, 1)
    IN IF a.err # "" THEN Staged(a.h, Nil, a.err, 0, 0, 0)
       ELSE Staged(a.h, c.data, "", 0, 0, 0)

\* insert up to the store: "check ids", "clone data", "create or clone
\* namespace", "add documents"
insertStage(h, ns, list) ==
    IF \E i \in 1..Len(list) : Get(h, list[i], "id") = Missing
    THEN Staged(h, Nil, "document is missng the _id field", 0, 0, 0)
    ELSE LET c == DataClone(h, h.data)
             n == insertNamespace(c.h, c.data, ns)
             a == insertDocs(n.h, n.ns, list, 1)
         IN IF a.err # "" THEN Staged(a.h, Nil, a.err, 0, 0, 0)
            ELSE Staged(a.h, c.data, "", 0, 0, 0)

\* cloneDataAndNamespace with the namespace of the clone left as it is
cloneDataAndNamespace_shared(h, ns) ==
    LET c == DataClone(h, h.data)
    IN [h |-> c.h, data |-> c.data, ns |-> NsOf(c.h, c.data, ns)]

\* "clone data and namespace" of replace, update and delete
cloneDataAndNamespace(h, ns) ==
    LET c == DataClone(h, h.data)
        n == NamespaceClone(c.h, NsOf(c.h, c.data, ns))
    IN [h |-> SetNs(n.h, c.data, ns, n.ns), data |-> c.data, ns |-> n.ns]

\* replaceStage with the _id of the replacement looked at before the namespace
replaceStage_idFirst(h, ns, query, repl) ==
    IF Get(h, repl, "id") = Missing
    THEN Staged(h, Nil, "document is missng the _id field", 0, 0, 0)
    ELSE IF NsOf(h, h.data, ns) = Nil THEN Staged(h, Nil, "", 0, 0, 0)
    ELSE LET f == Filter(h, h.heapNs[NsOf(h, h.data, ns)].Documents, query, 1)
         IN IF f.err # "" THEN Staged(h, Nil, f.err, 0, 0, 0)
            ELSE IF Len(f.list) = 0 THEN Staged(h, Nil, "", 0, 0, 0)
            ELSE LET c == cloneDataAndNamespace(h, ns)
                     d == [c.h EXCEPT !.heapNs[c.ns].primaryIndex =
                                          IndexDelete(c.h, @, f.list[1])]
                 IN IF ~IndexSetOk(d, d.heapNs[c.ns].primaryIndex, repl)
                    THEN Staged(d, Nil, "document with same _id exists already", 0, 0, 0)
                    ELSE Staged([d EXCEPT !.heapNs[c.ns].primaryIndex = IndexAdd(d, @, repl),
                                          !.heapNs[c.ns].Documents[f.index[1]] = repl],
                                c.data, "", 1, 1, 0)

\* replaceStage with the result of Set ignored
replaceStage_unchecked(h, ns, query, repl) ==
    IF NsOf(h, h.data, ns) = Nil THEN Staged(h, Nil, "", 0, 0, 0)
    ELSE IF Get(h, repl, "id") = Missing
    THEN Staged(h, Nil, "document is missng the _id field", 0, 0, 0)
    ELSE LET f == Filter(h, h.heapNs[NsOf(h, h.data, ns)].Documents, query, 1)
         IN IF f.err # "" THEN Staged(h, Nil, f.err, 0, 0, 0)
            ELSE IF Len(f.list) = 0 THEN Staged(h, Nil, "", 0, 0, 0)
            ELSE LET c == cloneDataAndNamespace(h, ns)
                     d == [c.h EXCEPT !.heapNs[c.ns].primaryIndex =
                                          IndexDelete(c.h, @, f.list[1])]
                 IN Staged([d EXCEPT !.heapNs[c.ns].primaryIndex = IndexAdd(d, @, repl),
                                     !.heapNs[c.ns].Documents[f.index[1]] = repl],
                           c.data, "", 1, 1, 0)

replaceStage(h, ns, query, repl) ==
    IF NsOf(h, h.data, ns) = Nil THEN Staged(h, Nil, "", 0, 0, 0)
    ELSE IF Get(h, repl, "id") = Missing
    THEN Staged(h, Nil, "document is missng the _id field", 0, 0, 0)
    ELSE LET f == Filter(h, h.heapNs[NsOf(h, h.data, ns)].Documents, query, 1)
         IN IF f.err # "" THEN Staged(h, Nil, f.err, 0, 0, 0)
            ELSE IF Len(f.list) = 0 THEN Staged(h, Nil, "", 0, 0, 0)
            ELSE LET c == cloneDataAndNamespace(h, ns)
                     d == [c.h EXCEPT !.heapNs[c.ns].primaryIndex =
                                          IndexDelete(c.h, @, f.list[1])]
                 IN IF ~IndexSetOk(d, d.heapNs[c.ns].primaryIndex, repl)
                    THEN Staged(d, Nil, "document with same _id exists already", 0, 0, 0)
                    ELSE Staged([d EXCEPT !.heapNs[c.ns].primaryIndex = IndexAdd(d, @, repl),
                                          !.heapNs[c.ns].Documents[f.index[1]] = repl],
                                c.data, "", 1, 1, 0)

\* updateDocs with the update applied to the matched documents themselves
updateDocs_inPlace(h, list, upd) ==
    LET u == Update(h, list, upd)
    IN [h |-> u.h, newList |-> list, err |-> u.err]

\* update, "clone documents" and "update documents"
updateDocs(h, list, upd) ==
    LET c == CloneList(h, list)
        u == Update(c.h, c.list, upd)
    IN [h |-> u.h, newList |-> c.list, err |-> u.err]

\* "remove old docs from index" / "update primary index": Delete each
RECURSIVE indexDeleteAll(_, _, _, _)
indexDeleteAll(h, n, list, i) ==
    IF i > Len(list) THEN h
    ELSE indexDeleteAll([h EXCEPT !.heapNs[n].primaryIndex = IndexDelete(h, @, list[i])],
                        n, list, i + 1)

\* update, "add new docs to index": Set each, stop at the first conflict
RECURSIVE indexSetAll(_, _, _, _)
indexSetAll(h, n, newList, i) ==
    IF i > Len(newList) THEN [h |-> h, err |-> ""]
    ELSE IF ~IndexSetOk(h, h.heapNs[n].primaryIndex, newList[i])
    THEN [h |-> h, err |-> "document with same _id exists already"]
    ELSE indexSetAll([h EXCEPT !.heapNs[n].primaryIndex = IndexAdd(h, @, newList[i])],
                     n, newList, i + 1)

\* replaceDocuments with Documents[i] = newList[i]
replaceDocuments_byOrder(h, n, index, newList) ==
    [h EXCEPT !.heapNs[n].Documents =
        [p \in 1..Len(@) |-> IF p <= Len(newList) THEN newList[p] ELSE @[p]]]

\* update, "replace documents": Documents[index[i]] = newList[i]
replaceDocuments(h, n, index, newList) ==
    [h EXCEPT !.heapNs[n].Documents =
        [p \in 1..Len(@) |->
            IF \E i \in 1..Len(index) : index[i] = p
            THEN newList[CHOOSE i \in 1..Len(index) : index[i] = p]
            ELSE @[p]]]

updateStage(h, ns, query, upd, limit) ==
    IF NsOf(h, h.data, ns) = Nil THEN Staged(h, Nil, "", 0, 0, 0)
    ELSE LET f == Filter(h, h.heapNs[NsOf(h, h.data, ns)].Documents, query, limit)
         IN IF f.err # "" THEN Staged(h, Nil, f.err, 0, 0, 0)
            ELSE IF Len(f.list) = 0 THEN Staged(h, Nil, "", 0, 0, 0)
            ELSE LET u == updateDocs(h, f.list, upd)
                 IN IF u.err # "" THEN Staged(u.h, Nil, u.err, 0, 0, 0)
                    ELSE LET c == cloneDataAndNamespace(u.h, ns)
                             d == indexDeleteAll(c.h, c.ns, f.list, 1)
                             a == indexSetAll(d, c.ns, u.newList, 1)
                         IN IF a.err # "" THEN Staged(a.h, Nil, a.err, 0, 0, 0)
                            ELSE Staged(replaceDocuments(a.h, c.ns, f.index, u.newList),
                                        c.data, "", Len(f.list), Len(f.list), 0)

\* DifferenceFrom with j not advanced past a skipped item
RECURSIVE DifferenceFrom_noAdvance(_, _, _, _)
DifferenceFrom_noAdvance(a, b, i, j) ==
    IF i > Len(a) THEN <<>>
    ELSE IF j <= Len(b) /\ b[j] = a[i]
         THEN DifferenceFrom_noAdvance(a, b, i + 1, j)
         ELSE <<a[i]>> \o DifferenceFrom_noAdvance(a, b, i + 1, j)

\* bsonkit.Difference(a, b): the items of a, skipping an item when it is
\* at the head of what is left of b
RECURSIVE DifferenceFrom(_, _, _, _)
DifferenceFrom(a, b, i, j) ==
    IF i > Len(a) THEN <<>>
    ELSE IF j <= Len(b) /\ b[j] = a[i]
         THEN DifferenceFrom(a, b, i + 1, j + 1)
         ELSE <<a[i]>> \o DifferenceFrom(a, b, i + 1, j)

Difference(a, b) == DifferenceFrom(a, b, 1, 1)

\* deleteStage without "update primary index"
deleteStage_noIndex(h, ns, query, limit) ==
    IF NsOf(h, h.data, ns) = Nil THEN Staged(h, Nil, "", 0, 0, 0)
    ELSE LET f == Filter(h, h.heapNs[NsOf(h, h.data, ns)].Documents, query, limit)
         IN IF f.err # "" THEN Staged(h, Nil, f.err, 0, 0, 0)
            ELSE LET c == cloneDataAndNamespace(h, ns)
                     r == [c.h EXCEPT !.heapNs[c.ns].Documents = Difference(@, f.list)]
                 IN Staged(r, c.data, "", 0, 0, Len(f.list))

\* deleteStage with the limit not handed to Filter
deleteStage_noLimit(h, ns, query, limit) ==
    IF NsOf(h, h.data, ns) = Nil THEN Staged(h, Nil, "", 0, 0, 0)
    ELSE LET f == Filter(h, h.heapNs[NsOf(h, h.data, ns)].Documents, query, 0)
         IN IF f.err # "" THEN Staged(h, Nil, f.err, 0, 0, 0)
            ELSE LET c == cloneDataAndNamespace(h, ns)
                     r == [c.h EXCEPT !.heapNs[c.ns].Documents = Difference(@, f.list)]
                 IN Staged(indexDeleteAll(r, c.ns, f.list, 1), c.data, "", 0, 0, Len(f.list))

\* delete up to the store: "check namespace", "filter documents", "clone
\* data and namespace", "remove documents", "update primary index"
deleteStage(h, ns, query, limit) ==
    IF NsOf(h, h.data, ns) = Nil THEN Staged(h, Nil, "", 0, 0, 0)
    ELSE LET f == Filter(h, h.heapNs[NsOf(h, h.data, ns)].Documents, query, limit)
         IN IF f.err # "" THEN Staged(h, Nil, f.err, 0, 0, 0)
            ELSE LET c == cloneDataAndNamespace(h, ns)
                     r == [c.h EXCEPT !.heapNs[c.ns].Documents = Difference(@, f.list)]
                 IN Staged(indexDeleteAll(r, c.ns, f.list, 1), c.data, "", 0, 0, Len(f.list))

----------------------------------------------------------------------------
(* engine.go: find and the drops                                           *)

\* find with the limit not handed to Filter
find_noLimit(h, ns, query, limit) ==
    IF NsOf(h, h.data, ns) = Nil THEN Returned(h, "", "none", <<>>, 0, 0, 0)
    ELSE LET f == Filter(h, h.heapNs[NsOf(h, h.data, ns)].Documents, query, 0)
         IN Returned(h, f.err, "none", f.list, 0, 0, 0)

\* find: "check namespace", "filter documents"
find(h, ns, query, limit) ==
    IF NsOf(h, h.data, ns) = Nil THEN Returned(h, "", "none", <<>>, 0, 0, 0)
    ELSE LET f == Filter(h, h.heapNs[NsOf(h, h.data, ns)].Documents, query, limit)
         IN Returned(h, f.err, "none", f.list, 0, 0, 0)

\* dropDatabase with the test of listCollections, strings.HasPrefix(ns, name)
dropDatabase_prefix(h, name) ==
    Returned([h EXCEPT !.heapData[h.data] =
                 [k \in { m \in DOMAIN @ : ~HasPrefix(m, name) } |-> @[k]]],
             "", "none", <<>>, 0, 0, 0)

\* delete(e.data.Namespaces, ns) for every ns of the database
dropDatabase(h, name) ==
    Returned([h EXCEPT !.heapData[h.data] =
                 [k \in { m \in DOMAIN @ : SplitHead(m) # name } |-> @[k]]],
             "", "none", <<>>, 0, 0, 0)

\* delete(e.data.Namespaces, name) for the name equal to ns
dropCollection(h, ns) ==
    Returned([h EXCEPT !.heapData[h.data] =
                 [k \in { m \in DOMAIN @ : m # ns } |-> @[k]]],
             "", "none", <<>>, 0, 0, 0)

\* the queries given to listDatabases and listCollections: {} | {name: v} |
\* a query with an unknown operator
ListQueries ==
    { [f |-> "all", v |-> <<>>], [f |-> "bad", v |-> <<>>],
      [f |-> "name", v |-> <<"a">>], [f |-> "name", v |-> <<"c">>] }

\* mongokit.Filter(list, query, 0) on the entries of a listing
FilterEntries(list, q) ==
    IF q.f = "bad" THEN [list |-> <<>>, err |-> "unknown operator"]
    ELSE [list |-> SelectSeq(list, LAMBDA e : q.f = "all" \/ e.name = q.v), err |-> ""]

\* the orders in which a range over a map with the keys S can visit them
RangeOrders(S) ==
    { s \in [1..Cardinality(S) -> S] : \A k \in S : \E i \in DOMAIN s : s[i] = k }

\* the value listDatabases reports as sizeOnDisk
SizeOnDisk == 42

\* the keys of the map "sort" of listDatabases: strings.Split(ns.Name, ".")[0]
\* of every namespace
sortKeys(h) ==
    { SplitHead(h.heapNs[h.heapData[h.data][k]].Name) : k \in DOMAIN h.heapData[h.data] }

\* sort[name]: the namespaces appended under name
sortOf(h, name) ==
    { h.heapData[h.data][k] : k \in { m \in DOMAIN h.heapData[h.data] :
          SplitHead(h.heapNs[h.heapData[h.data][m]].Name) = name } }

\* databaseEmpty with empty set again by every namespace of the loop: one
\* without documents is enough
databaseEmpty_any(h, nss) == \E n \in nss : ~(Len(h.heapNs[n].Documents) > 0)

\* the loop over sort[name]: empty stays true unless a namespace has documents
databaseEmpty(h, nss) == \A n \in nss : ~(Len(h.heapNs[n].Documents) > 0)

\* listDatabases(query): the lists it can return (the order of a range over
\* a map is not fixed) and its error
listDatabases(h, query) ==
    { FilterEntries([i \in DOMAIN o |->
                        [name |-> o[i], sizeOnDisk |-> SizeOnDisk,
                         empty |-> databaseEmpty(h, sortOf(h, o[i]))]], query) :
        o \in RangeOrders(sortKeys(h)) }

\* the test of listCollections on a namespace
inDatabase(ns, db) == HasPrefix(ns, db)

\* listCollections(db, query): an entry for every namespace that passes the
\* test, named strings.TrimPrefix(ns, db)[1:]; every namespace name holds a
\* "." and no database name does, so the slice is never taken of ""
listCollections(h, db, query) ==
    { FilterEntries([i \in DOMAIN o |->
                        [name |-> Tail(TrimPrefix(o[i], db)), type |-> "collection",
                         readOnly |-> FALSE]], query) :
        o \in RangeOrders({ ns \in DOMAIN h.heapData[h.data] : inDatabase(ns, db) }) }

----------------------------------------------------------------------------
(* The engine used from one thread: every call runs from Lock to Unlock    *)

Max(S) == IF S = {} THEN 0 ELSE CHOOSE m \in S : \A x \in S : x <= m

\* the namespaces and documents a *Data reaches
NsReached(h, d) == { h.heapData[d][k] : k \in DOMAIN h.heapData[d] }
DocsReached(h, d) ==
    UNION { Range(h.heapNs[n].Documents) \cup { e.doc : e \in h.heapNs[n].primaryIndex } :
            n \in NsReached(h, d) }

\* reclamation: the objects allocated last that are reached neither from
\* the roots nor by a holder of heldNs and heldDocs are freed
Release(h, roots, heldNs, heldDocs) ==
    [h EXCEPT !.heapData = SubSeq(@, 1, Max(roots)),
              !.heapNs = SubSeq(@, 1, Max(heldNs \cup UNION { NsReached(h, d) : d \in roots })),
              !.heapDoc = SubSeq(@, 1, Max(heldDocs \cup UNION { DocsReached(h, d) : d \in roots }))]

\* the caller's documents (bsonkit.Transform makes a new document of each)
Transform(h, contents) ==
    [h |-> [h EXCEPT !.heapDoc = @ \o contents],
     list |-> [k \in 1..Len(contents) |-> Len(h.heapDoc) + k]]

\* the lists a caller inserts
InsertLists ==
    { <<Doc(1, 0)>>, <<Doc(2, 1)>>, <<Doc(Missing, 0)>>,
      <<Doc(1, 1), Doc(2, 0)>>, <<Doc(2, 0), Doc(2, 1)>>, <<Doc(2, 1), Doc(Missing, 1)>> }

\* the replacements a caller gives
Replacements == { Doc(1, 1), Doc(2, 0), Doc(Missing, 1) }

Limits == {0, 1}

NoCall == [op |-> "none", ns |-> <<>>, q |-> [f |-> "all", v |-> 0], lim |-> 0,
           docs |-> <<>>, upd |-> [op |-> "bad", f |-> "x", v |-> 0],
           err |-> "", store |-> "none", out |-> <<>>,
           matched |-> 0, modified |-> 0, n |-> 0]

\* no document: a nil bsonkit.Doc
NoDoc == Doc(-1, -1)

\* Result: what an operation of a transaction returns, Error "" being nil
Result(matched, modified, upserted, error) ==
    [Matched |-> matched, Modified |-> modified, Upserted |-> upserted, Error |-> error]

NoResult == Result(<<>>, <<>>, NoDoc, "")

\* BulkWrite, "prepare result": UpsertedIDs is the set of the map's pairs
NoBulkWriteResult ==
    [InsertedCount |-> 0, MatchedCount |-> 0, ModifiedCount |-> 0, DeletedCount |-> 0,
     UpsertedCount |-> 0, UpsertedIDs |-> {}]

\* no bsonkit or mongokit function and no method of Collection is called
NoKitCall == [fn |-> "none", list |-> <<>>, b |-> <<>>, path |-> "", reverse |-> FALSE,
              query |-> <<>>, doc |-> <<>>, err |-> "",
              models |-> <<>>, results |-> <<>>, result |-> NoResult,
              returnAfter |-> FALSE, fail |-> "", out |-> NoBulkWriteResult, errors |-> <<>>,
              db |-> <<>>, q |-> [f |-> "all", v |-> <<>>]]

\* the callers of the methods of Collection
Callers == 1..NumThreads

\* a caller that is in no method of Collection. bad: a bsonkit.Transform of
\* the call fails; txn: the transaction the method began; inner: the one
\* useTransaction began; res: what the transaction's operation returned;
\* ret: what the method returned
NoMethod == [method |-> "none", pc |-> "idle", bad |-> FALSE, txn |-> 0, inner |-> 0,
             res |-> "none", ret |-> "none"]

\* no method of Collection was called and the Engine has begun no transaction
NoCollectionCall ==
    /\ col = [c \in Callers |-> NoMethod]
    /\ txns = <<>>
    /\ writer = 0
    /\ ncalls = 0

\* Data.Prepare: prepares every namespace of the catalog
DataPrepare(h, d) ==
    [h EXCEPT !.heapNs =
        [n \in 1..Len(@) |-> IF n \in NsReached(h, d) THEN Prepare(h, @[n]) ELSE @[n]]]

\* the namespace names in the order a catalog is read
NsSeq == << <<"a", ".", "c">>, <<"a", ".", "d">>, <<"a", "b", ".", "c">> >>

\* Store.Load: the objects of the catalog the store holds, not yet prepared
RECURSIVE Load(_, _, _)
Load(h, catalog, i) ==
    IF i > Len(NsSeq) THEN h
    ELSE IF NsSeq[i] \notin DOMAIN catalog THEN Load(h, catalog, i + 1)
    ELSE LET t == Transform(h, catalog[NsSeq[i]])
             n == [t.h EXCEPT !.heapNs = Append(@,
                        [Name |-> NsSeq[i], Documents |-> t.list, Indexes |-> <<>>,
                         primaryIndex |-> NewIndex])]
         IN Load(SetNs(n, 1, NsSeq[i], Len(n.heapNs)), catalog, i + 1)

\* createEngine(store): e.data is what the store loads, prepared
createEngine(catalog) ==
    DataPrepare(Load([heapData |-> << [k \in {} |-> Nil] >>, heapNs |-> <<>>,
                      heapDoc |-> <<>>, data |-> 1, stored |-> catalog], catalog, 1), 1)

\* what the store holds when the engine is created: nothing (the empty
\* catalog of NewData), or namespace ab.c with the document {_id: 1, x: 0}
StoredCatalogs ==
    { [k \in {} |-> <<>>],
      [k \in {<<"a", "b", ".", "c">>} |-> << Doc(1, 0) >>] }

Init ==
    /\ \E catalog \in StoredCatalogs :
          /\ heapData = createEngine(catalog).heapData
          /\ heapNs = createEngine(catalog).heapNs
          /\ heapDoc = createEngine(catalog).heapDoc
          /\ data = createEngine(catalog).data
          /\ stored = createEngine(catalog).stored
    /\ last = NoCall
    /\ nops = 0
    /\ pc = [t \in 1..NumThreads |-> "idle"]
    /\ mutex = 0
    /\ top = [t \in 1..NumThreads |-> NoCall]
    /\ tclone = [t \in 1..NumThreads |-> Nil]
    /\ tret = [t \in 1..NumThreads |-> NoCall]
    /\ kcall = NoKitCall
    /\ kret = NoKitCall
    /\ NoCollectionCall

\* the call returned r: the engine is as r left it
Return(r, call) ==
    LET g == Release(r.h, {data, r.h.data}, NsReached(H, data), DocsReached(H, data))
    IN /\ heapData' = g.heapData
       /\ heapNs' = g.heapNs
       /\ heapDoc' = g.heapDoc
       /\ data' = g.data
       /\ stored' = g.stored
       /\ last' = [call EXCEPT !.err = r.err, !.store = r.store, !.out = r.list,
                               !.matched = r.matched, !.modified = r.modified, !.n = r.n]
       /\ nops' = nops + 1
       /\ UNCHANGED <<threadVars, kitVars, colVars>>

Insert ==
    /\ nops < MaxOps
    /\ \E ns \in NsNames, contents \in InsertLists :
         LET t == Transform(H, contents)
             s == insertStage(t.h, ns, t.list)
         IN \E storeOk \in StoreAnswers(s) :
              Return(storeAndSet(s, storeOk),
                     [NoCall EXCEPT !.op = "insert", !.ns = ns, !.docs = contents])

Replace ==
    /\ nops < MaxOps
    /\ \E ns \in NsNames, q \in Queries, content \in Replacements :
         LET t == Transform(H, <<content>>)
             s == replaceStage(t.h, ns, q, t.list[1])
         IN \E storeOk \in StoreAnswers(s) :
              Return(storeAndSet(s, storeOk),
                     [NoCall EXCEPT !.op = "replace", !.ns = ns, !.q = q, !.lim = 1,
                                    !.docs = <<content>>])

UpdateCall ==
    /\ nops < MaxOps
    /\ \E ns \in NsNames, q \in Queries, u \in Updates, limit \in Limits :
         LET s == updateStage(H, ns, q, u, limit)
         IN \E storeOk \in StoreAnswers(s) :
              Return(storeAndSet(s, storeOk),
                     [NoCall EXCEPT !.op = "update", !.ns = ns, !.q = q, !.lim = limit,
                                    !.upd = u])

Delete ==
    /\ nops < MaxOps
    /\ \E ns \in NsNames, q \in Queries, limit \in Limits :
         LET s == deleteStage(H, ns, q, limit)
         IN \E storeOk \in StoreAnswers(s) :
              Return(storeAndSet(s, storeOk),
                     [NoCall EXCEPT !.op = "delete", !.ns = ns, !.q = q, !.lim = limit])

Find ==
    /\ nops < MaxOps
    /\ \E ns \in NsNames, q \in Queries, limit \in Limits :
         Return(find(H, ns, q, limit),
                [NoCall EXCEPT !.op = "find", !.ns = ns, !.q = q, !.lim = limit])

DropDatabase ==
    /\ nops < MaxOps
    /\ \E name \in DbNames :
         Return(dropDatabase(H, name), [NoCall EXCEPT !.op = "dropDatabase", !.ns = name])

DropCollection ==
    /\ nops < MaxOps
    /\ \E ns \in NsNames :
         Return(dropCollection(H, ns), [NoCall EXCEPT !.op = "dropCollection", !.ns = ns])

Next ==
    \/ Insert
    \/ Replace
    \/ UpdateCall
    \/ Delete
    \/ Find
    \/ DropDatabase
    \/ DropCollection

Spec == Init /\ [][Next]_vars

----------------------------------------------------------------------------
(* What is observed of the engine                                          *)

\* the documents of namespace name as *Data d holds them
DocumentsOf(h, d, name) ==
    IF NsOf(h, d, name) = Nil THEN <<>> ELSE h.heapNs[NsOf(h, d, name)].Documents

\* the contents of a list of documents
ContentsOf(h, list) == [i \in 1..Len(list) |-> h.heapDoc[list[i]]]

\* everything a holder of the pointer d sees: per namespace the object,
\* its document list, the documents' contents and its primary index
View(h, d) ==
    [name \in DOMAIN h.heapData[d] |->
        [ns |-> h.heapData[d][name],
         Name |-> h.heapNs[h.heapData[d][name]].Name,
         Documents |-> h.heapNs[h.heapData[d][name]].Documents,
         contents |-> ContentsOf(h, h.heapNs[h.heapData[d][name]].Documents),
         primaryIndex |-> h.heapNs[h.heapData[d][name]].primaryIndex]]

\* what a find returns: its error, the documents and their contents
FindView(h, ns, q, limit) ==
    LET r == find(h, ns, q, limit)
    IN [err |-> r.err, list |-> r.list, contents |-> ContentsOf(r.h, r.list)]

WriteOps == {"insert", "replace", "update", "delete"}

\* the positions find(ns, q, limit) selects among contents
RECURSIVE Selected(_, _, _, _)
Selected(contents, q, limit, i) ==
    IF i > Len(contents) THEN {}
    ELSE IF Matches(contents[i], q)
         THEN IF limit = 1 THEN {i}
              ELSE {i} \cup Selected(contents, q, IF limit = 0 THEN 0 ELSE limit - 1, i + 1)
         ELSE Selected(contents, q, limit, i + 1)

RECURSIVE Without(_, _, _)
Without(contents, sel, i) ==
    IF i > Len(contents) THEN <<>>
    ELSE (IF i \in sel THEN <<>> ELSE <<contents[i]>>) \o Without(contents, sel, i + 1)

\* the contents a namespace with these contents has after the call wrote
Written(contents, call) ==
    CASE call.op = "insert" -> contents \o call.docs
      [] call.op = "replace" ->
            [i \in 1..Len(contents) |->
                IF i \in Selected(contents, call.q, 1, 1) THEN call.docs[1] ELSE contents[i]]
      [] call.op = "update" ->
            [i \in 1..Len(contents) |->
                IF i \in Selected(contents, call.q, call.lim, 1)
                THEN ApplyUpdate(contents[i], call.upd) ELSE contents[i]]
      [] call.op = "delete" ->
            Without(contents, Selected(contents, call.q, call.lim, 1), 1)
      [] OTHER -> contents

----------------------------------------------------------------------------
(* Claims                                                                  *)

\* C1: no two distinct documents of a namespace of the current catalog have
\* equal _id values, in every state reached by engine calls
UniqueId ==
    \A name \in DOMAIN heapData[data] :
        \A i, j \in 1..Len(DocumentsOf(H, data, name)) :
            i # j => /\ DocumentsOf(H, data, name)[i] # DocumentsOf(H, data, name)[j]
                     /\ Get(H, DocumentsOf(H, data, name)[i], "id")
                            # Get(H, DocumentsOf(H, data, name)[j], "id")

\* a call was refused for a duplicate _id on a namespace holding two documents
UniqueIdWitness ==
    /\ last.op \in {"replace", "update"}
    /\ last.err = "document with same _id exists already"
    /\ Len(DocumentsOf(H, data, last.ns)) = 2

\* C2: for every namespace the primary index holds exactly the documents of
\* the document list, each once, under its _id
PrimaryIndexCoverage ==
    \A name \in DOMAIN heapData[data] :
        LET n == heapNs[heapData[data][name]]
        IN /\ { e.doc : e \in n.primaryIndex } = Range(n.Documents)
           /\ Cardinality(n.primaryIndex) = Len(n.Documents)
           /\ Cardinality(Range(n.Documents)) = Len(n.Documents)
           /\ \A e \in n.primaryIndex : e.key = heapDoc[e.doc].id

\* a delete removed a document and left another
PrimaryIndexCoverageWitness ==
    /\ last.op = "delete"
    /\ last.err = ""
    /\ last.n = 1
    /\ Len(DocumentsOf(H, data, last.ns)) = 1

\* C3: after a write call returned success a find sees the namespace with
\* all the writes of the call; after it returned an error every find
\* returns what it returned before the call
ReadCommitted ==
    [][(last'.op \in WriteOps /\ nops' = nops + 1) =>
        LET before == H
            after == H'
            call == last'
            all == [f |-> "all", v |-> 0]
        IN IF call.err # ""
           THEN \A ns \in NsNames, q \in Queries, limit \in Limits :
                   FindView(after, ns, q, limit) = FindView(before, ns, q, limit)
           ELSE /\ FindView(after, call.ns, all, 0).contents
                       = Written(FindView(before, call.ns, all, 0).contents, call)
                /\ \A ns \in NsNames \ {call.ns}, q \in Queries, limit \in Limits :
                       FindView(after, ns, q, limit) = FindView(before, ns, q, limit)
      ]_vars

\* an insert failed on its second document, in a namespace that has documents
ReadCommittedWitness ==
    /\ last.op = "insert"
    /\ last.err = "document with same _id exists already"
    /\ Len(last.docs) = 2
    /\ Len(DocumentsOf(H, data, last.ns)) > 0
    /\ last.docs[1].id \notin { heapDoc[d].id : d \in Range(DocumentsOf(H, data, last.ns)) }

\* C4: when Store.Store fails the call returns an error and the current
\* catalog is the same object with the same content as before the call
StoreFailureAtomic ==
    [][(last'.store = "fail" /\ nops' = nops + 1) =>
        /\ last'.err # ""
        /\ data' = data
        /\ View(H', data') = View(H, data)
      ]_vars

\* the store failed under an update of a namespace with documents
StoreFailureAtomicWitness ==
    /\ last.op = "update"
    /\ last.store = "fail"
    /\ Len(DocumentsOf(H, data, last.ns)) > 0

\* C5: a catalog that was the engine's current data is not modified by any
\* later call: the holder of the pointer sees the same namespaces and lists
CopyOnWrite ==
    [][View(H', data) = View(H, data)]_vars

\* C6: no call changes the content of a document the current catalog reaches
DocumentsNotMutated ==
    [][\A d \in DocsReached(H, data) : heapDoc'[d] = heapDoc[d]]_vars

\* an update modified two documents
DocumentsNotMutatedWitness ==
    /\ last.op = "update"
    /\ last.err = ""
    /\ last.store = "ok"
    /\ last.modified = 2

\* C7: between calls the catalog stored last is the current catalog
PersistBeforePublish ==
    stored = Serialize(H, data)

\* C10: an insert of a document whose _id a document of the namespace has
\* returns an error, and a find by that _id returns what it returned before
DuplicateIdInsert ==
    [][(last'.op = "insert" /\ nops' = nops + 1) =>
        \A i \in 1..Len(last'.docs) :
            LET before == FindView(H, last'.ns, [f |-> "id", v |-> last'.docs[i].id], 0)
            IN Len(before.list) > 0 =>
                /\ last'.err # ""
                /\ FindView(H', last'.ns, [f |-> "id", v |-> last'.docs[i].id], 0) = before
                /\ Len(before.list) = 1
      ]_vars

\* an insert was refused for a document whose _id a document of the
\* namespace has, with another content
DuplicateIdInsertWitness ==
    /\ last.op = "insert"
    /\ last.err = "document with same _id exists already"
    /\ \E d \in Range(DocumentsOf(H, data, last.ns)) :
          /\ heapDoc[d].id = last.docs[1].id
          /\ heapDoc[d].x # last.docs[1].x

\* the _id values of a list of contents
IdsOf(contents) == { contents[i].id : i \in 1..Len(contents) }

\* what find(ns, {}, 0) returns, as contents
AllOf(h, ns) == FindView(h, ns, [f |-> "all", v |-> 0], 0).contents

\* C11: an insert whose list has a document without _id returns an error,
\* leaves the current catalog as it was, creates no namespace and does not
\* call the store
MissingIdInsert ==
    [][(last'.op = "insert" /\ nops' = nops + 1
            /\ \E i \in 1..Len(last'.docs) : last'.docs[i].id = Missing) =>
        /\ last'.err # ""
        /\ last'.store = "none"
        /\ stored' = stored
        /\ data' = data
        /\ DOMAIN heapData'[data'] = DOMAIN heapData[data]
        /\ View(H', data') = View(H, data)
      ]_vars

\* an insert of a document with _id followed by one without, into a
\* namespace that does not exist, was refused
MissingIdInsertWitness ==
    /\ last.op = "insert"
    /\ Len(last.docs) = 2
    /\ last.docs[1].id # Missing
    /\ last.docs[2].id = Missing
    /\ last.err = "document is missng the _id field"
    /\ last.ns \notin DOMAIN heapData[data]

\* the first document of docs whose _id a document of contents or an
\* earlier document of docs has; Len(docs) + 1 when there is none
RECURSIVE FirstDuplicate(_, _, _)
FirstDuplicate(contents, docs, k) ==
    IF k > Len(docs) THEN k
    ELSE IF docs[k].id \in IdsOf(contents) \cup IdsOf(SubSeq(docs, 1, k - 1)) THEN k
    ELSE FirstDuplicate(contents, docs, k + 1)

\* C12: after an insert of d1..dn where dk is the first document with a
\* duplicate _id, the collection holds d1..d(k-1) and not dk..dn
OrderedInsertPartial ==
    [][(last'.op = "insert" /\ nops' = nops + 1
            /\ \A i \in 1..Len(last'.docs) : last'.docs[i].id # Missing
            /\ FirstDuplicate(AllOf(H, last'.ns), last'.docs, 1) <= Len(last'.docs)) =>
        AllOf(H', last'.ns)
            = AllOf(H, last'.ns)
                \o SubSeq(last'.docs, 1, FirstDuplicate(AllOf(H, last'.ns), last'.docs, 1) - 1)
      ]_vars

\* the document a replace call matches in contents: its position, 0 when
\* there is none
MatchedAt(contents, q) ==
    IF Selected(contents, q, 1, 1) = {} THEN 0
    ELSE CHOOSE i \in Selected(contents, q, 1, 1) : TRUE

\* C13: a replace of a matched document by a replacement without _id
\* succeeds and stores the replacement with the _id of the matched document
ReplacePreservesId ==
    [][(last'.op = "replace" /\ nops' = nops + 1
            /\ last'.docs[1].id = Missing
            /\ MatchedAt(AllOf(H, last'.ns), last'.q) # 0
            /\ last'.store # "fail") =>
        LET before == AllOf(H, last'.ns)
            m == MatchedAt(before, last'.q)
        IN /\ last'.err = ""
           /\ AllOf(H', last'.ns)
                = [before EXCEPT ![m] = [id |-> before[m].id, x |-> last'.docs[1].x]]
      ]_vars

\* C14: a replace whose replacement has an _id other than that of the
\* matched document returns an error and leaves the catalog as it was
ReplaceRejectsChangedId ==
    [][(last'.op = "replace" /\ nops' = nops + 1
            /\ last'.docs[1].id # Missing
            /\ MatchedAt(AllOf(H, last'.ns), last'.q) # 0
            /\ last'.docs[1].id
                  # AllOf(H, last'.ns)[MatchedAt(AllOf(H, last'.ns), last'.q)].id) =>
        /\ last'.err # ""
        /\ data' = data
        /\ View(H', data') = View(H, data)
      ]_vars

\* C15: an update or replace whose result would hold an _id twice returns
\* an error, and one refused for a duplicate _id leaves the current catalog,
\* its primary indexes included, exactly as before the call
UniquenessRolledBack ==
    [][(last'.op \in {"replace", "update"} /\ nops' = nops + 1) =>
        LET result == Written(AllOf(H, last'.ns), last')
        IN /\ Cardinality(IdsOf(result)) < Len(result) => last'.err # ""
           /\ last'.err = "document with same _id exists already" =>
                /\ last'.store = "none"
                /\ stored' = stored
                /\ data' = data
                /\ View(H', data') = View(H, data)
      ]_vars

\* an update of both documents of a namespace to one _id was refused
UniquenessRolledBackWitness ==
    /\ last.op = "update"
    /\ last.q.f = "all"
    /\ last.lim = 0
    /\ last.upd = [op |-> "set", f |-> "id", v |-> 2]
    /\ last.err = "document with same _id exists already"
    /\ Len(DocumentsOf(H, data, last.ns)) = 2
    /\ IdsOf(AllOf(H, last.ns)) = {1, 2}

\* the first n elements of s, all of them when n = 0
FirstN(s, n) == IF n = 0 \/ n >= Len(s) THEN s ELSE SubSeq(s, 1, n)

\* the documents of list whose content matches q, in the order of list
MatchingOf(h, list, q) == SelectSeq(list, LAMBDA d : Matches(h.heapDoc[d], q))

\* C16: find returns the matching documents of the namespace in insertion
\* order, all of them for limit 0 and the first min(n, matches) for limit n
FindOrderLimit ==
    /\ \A ns \in NsNames, q \in Queries \ {[f |-> "bad", v |-> 0]}, limit \in 0..3 :
          /\ find(H, ns, q, limit).err = ""
          /\ find(H, ns, q, limit).list
                = FirstN(MatchingOf(H, DocumentsOf(H, data, ns), q), limit)
    /\ (last.op = "find" /\ last.err = "") =>
          last.out = FirstN(MatchingOf(H, DocumentsOf(H, data, last.ns), last.q), last.lim)
    /\ (last.op = "insert" /\ last.err = "") =>
          /\ Len(AllOf(H, last.ns)) >= Len(last.docs)
          /\ SubSeq(AllOf(H, last.ns),
                    Len(AllOf(H, last.ns)) - Len(last.docs) + 1,
                    Len(AllOf(H, last.ns))) = last.docs

\* a find with limit 1 returned the first of two matching documents
FindOrderLimitWitness ==
    /\ last.op = "find"
    /\ last.lim = 1
    /\ last.err = ""
    /\ Len(MatchingOf(H, DocumentsOf(H, data, last.ns), last.q)) = 2
    /\ last.out = << DocumentsOf(H, data, last.ns)[1] >>

----------------------------------------------------------------------------
(* The engine used from several threads.  A call is Lock, the body up to   *)
(* the store, the store with the swap of e.data, and the deferred Unlock.  *)

Threads == 1..NumThreads

\* the calls a thread may make
ThreadCalls ==
    { [NoCall EXCEPT !.op = "insert", !.ns = <<"a", ".", "c">>, !.docs = <<Doc(2, 1)>>],
      [NoCall EXCEPT !.op = "insert", !.ns = <<"a", ".", "c">>, !.docs = <<Doc(2, 0)>>],
      [NoCall EXCEPT !.op = "insert", !.ns = <<"a", ".", "c">>, !.docs = <<Doc(3, 0)>>],
      [NoCall EXCEPT !.op = "insert", !.ns = <<"a", "b", ".", "c">>, !.docs = <<Doc(1, 1)>>],
      [NoCall EXCEPT !.op = "replace", !.ns = <<"a", ".", "c">>, !.lim = 1,
                     !.q = [f |-> "id", v |-> 1], !.docs = <<Doc(2, 1)>>],
      [NoCall EXCEPT !.op = "update", !.ns = <<"a", ".", "c">>,
                     !.upd = [op |-> "set", f |-> "x", v |-> 1]],
      [NoCall EXCEPT !.op = "delete", !.ns = <<"a", ".", "c">>, !.q = [f |-> "id", v |-> 1]],
      [NoCall EXCEPT !.op = "find", !.ns = <<"a", ".", "c">>],
      [NoCall EXCEPT !.op = "dropCollection", !.ns = <<"a", ".", "c">>],
      [NoCall EXCEPT !.op = "dropDatabase", !.ns = <<"a">>] }

\* createEngine over a store that holds namespace a.c with the document
\* {_id: 1, x: 0}
LoadedEngine == createEngine([k \in {<<"a", ".", "c">>} |-> << Doc(1, 0) >>])

InitThreads ==
    /\ heapData = LoadedEngine.heapData
    /\ heapNs = LoadedEngine.heapNs
    /\ heapDoc = LoadedEngine.heapDoc
    /\ data = LoadedEngine.data
    /\ stored = LoadedEngine.stored
    /\ last = NoCall
    /\ nops = 0
    /\ pc = [t \in Threads |-> "lock"]
    /\ mutex = 0
    /\ top \in [Threads -> ThreadCalls]
    /\ tclone = [t \in Threads |-> Nil]
    /\ tret = [t \in Threads |-> NoCall]
    /\ kcall = NoKitCall
    /\ kret = NoKitCall
    /\ NoCollectionCall

SetEngine(h) ==
    /\ heapData' = h.heapData
    /\ heapNs' = h.heapNs
    /\ heapDoc' = h.heapDoc
    /\ data' = h.data
    /\ stored' = h.stored

\* the body of a call up to its store: for a write the staging part
BodyOf(h, call) ==
    CASE call.op = "insert" ->
            LET t == Transform(h, call.docs) IN insertStage(t.h, call.ns, t.list)
      [] call.op = "replace" ->
            LET t == Transform(h, call.docs) IN replaceStage(t.h, call.ns, call.q, t.list[1])
      [] call.op = "update" -> updateStage(h, call.ns, call.q, call.upd, call.lim)
      [] call.op = "delete" -> deleteStage(h, call.ns, call.q, call.lim)
      [] call.op = "dropDatabase" ->
            Staged(dropDatabase(h, call.ns).h, Nil, "", 0, 0, 0)
      [] call.op = "dropCollection" ->
            Staged(dropCollection(h, call.ns).h, Nil, "", 0, 0, 0)
      [] OTHER -> Staged(h, Nil, find(h, call.ns, call.q, call.lim).err, 0, 0, 0)

\* what find hands back, for a call that is a find
OutOf(h, call) ==
    IF call.op = "find" THEN FindView(h, call.ns, call.q, call.lim).contents ELSE <<>>

\* e.mutex.Lock() taken without waiting for the holder
TLock_noWait(t) ==
    /\ pc[t] = "lock"
    /\ mutex' = t
    /\ pc' = [pc EXCEPT ![t] = "body"]
    /\ UNCHANGED <<engineVars, last, nops, top, tclone, tret, kitVars, colVars>>

\* e.mutex.Lock()
TLock(t) ==
    /\ pc[t] = "lock"
    /\ mutex = 0
    /\ mutex' = t
    /\ pc' = [pc EXCEPT ![t] = "body"]
    /\ UNCHANGED <<engineVars, last, nops, top, tclone, tret, kitVars, colVars>>

TBody(t) ==
    /\ pc[t] = "body"
    /\ LET s == BodyOf(H, top[t])
       IN /\ SetEngine(s.h)
          /\ tclone' = [tclone EXCEPT ![t] = s.clone]
          /\ tret' = [tret EXCEPT ![t] =
                [top[t] EXCEPT !.err = s.err, !.matched = s.matched,
                               !.modified = s.modified, !.n = s.n,
                               !.out = OutOf(H, top[t])]]
          /\ pc' = [pc EXCEPT ![t] = IF s.clone = Nil THEN "unlock" ELSE "store"]
    /\ UNCHANGED <<last, nops, mutex, top, kitVars, colVars>>

TStore(t) ==
    /\ pc[t] = "store"
    /\ \E storeOk \in BOOLEAN :
         LET r == storeAndSet(Staged(H, tclone[t], tret[t].err, tret[t].matched,
                                        tret[t].modified, tret[t].n), storeOk)
         IN /\ SetEngine(r.h)
            /\ tret' = [tret EXCEPT ![t] =
                  [@ EXCEPT !.err = r.err, !.store = r.store, !.matched = r.matched,
                            !.modified = r.modified, !.n = r.n]]
    /\ pc' = [pc EXCEPT ![t] = "unlock"]
    /\ UNCHANGED <<last, nops, mutex, top, tclone, kitVars, colVars>>

\* defer e.mutex.Unlock()
TUnlock(t) ==
    /\ pc[t] = "unlock"
    /\ mutex' = 0
    /\ pc' = [pc EXCEPT ![t] = "done"]
    /\ UNCHANGED <<engineVars, last, nops, top, tclone, tret, kitVars, colVars>>

NextThreads ==
    \E t \in Threads :
        \/ TLock(t)
        \/ TBody(t)
        \/ TStore(t)
        \/ TUnlock(t)

SpecThreads == InitThreads /\ [][NextThreads]_vars

\* the call made alone, with the answer the store gave it
CallAlone(h, call, storeOk) ==
    LET s == BodyOf(h, call)
        r == storeAndSet(s, storeOk)
    IN [h |-> r.h,
        ret |-> [call EXCEPT !.err = r.err, !.store = r.store, !.matched = r.matched,
                             !.modified = r.modified, !.n = r.n, !.out = OutOf(h, call)]]

\* the calls of the threads made one after the other in the order given
RECURSIVE Sequential(_, _, _)
Sequential(h, order, i) ==
    IF i > Len(order) THEN [h |-> h, rets |-> [t \in {} |-> NoCall]]
    ELSE LET c == CallAlone(h, top[order[i]], tret[order[i]].store # "fail")
             rest == Sequential(c.h, order, i + 1)
         IN [h |-> rest.h,
             rets |-> [t \in (DOMAIN rest.rets) \cup {order[i]} |->
                          IF t = order[i] THEN c.ret ELSE rest.rets[t]]]

Orders == { o \in [Threads -> Threads] : \A a, b \in Threads : a # b => o[a] # o[b] }

\* C8: when all threads have returned, the catalog and every return value
\* are those of the calls made one after the other in some order
WritersSerialized ==
    (\A t \in Threads : pc[t] = "done") =>
        \E o \in Orders :
            LET run == Sequential(LoadedEngine, o, 1)
            IN /\ Serialize(run.h, run.h.data) = Serialize(H, data)
               /\ \A t \in Threads : run.rets[t] = tret[t]

\* two threads inserted the same _id into a.c at once: one was refused
WritersSerializedWitness ==
    /\ \A t \in Threads : pc[t] = "done"
    /\ \E a, b \in Threads :
          /\ top[a].op = "insert" /\ top[b].op = "insert"
          /\ top[a].docs # top[b].docs
          /\ top[a].docs[1].id = top[b].docs[1].id
          /\ top[a].ns = top[b].ns
          /\ tret[a].err = "" /\ tret[a].store = "ok"
          /\ tret[b].err = "document with same _id exists already"

\* C9: no find waits at Lock for a writer that holds the mutex, and no
\* writer waits at Lock for a find that holds it
ReadersDoNotLock ==
    \A r, w \in Threads :
        (top[r].op = "find" /\ top[w].op # "find") =>
            /\ ~(pc[r] = "lock" /\ mutex = w)
            /\ ~(pc[w] = "lock" /\ mutex = r)

----------------------------------------------------------------------------
(* bsonkit.Sort and bsonkit.Difference                                     *)

\* bsonkit.Compare, on the values the fields take
Compare(a, b) == IF a < b THEN -1 ELSE IF a > b THEN 1 ELSE 0

\* the function Sort hands to sort.Slice: is document a before document b
less(h, path, reverse, a, b) ==
    LET res == Compare(Get(h, a, path), Get(h, b, path))
    IN IF reverse THEN res > 0 ELSE res < 0

Orderings(n) == { p \in [1..n -> 1..n] : \A i, j \in 1..n : i # j => p[i] # p[j] }

\* sort.Slice(list, less) is not stable: it leaves list in any order of its
\* elements in which no element is less than one before it
SortSlice(h, list, path, reverse) ==
    { r \in { [i \in 1..Len(list) |-> list[p[i]]] : p \in Orderings(Len(list)) } :
        \A i, j \in 1..Len(r) : i < j => ~less(h, path, reverse, r[j], r[i]) }

\* bsonkit.Sort(list, path, reverse): the lists it can return
Sort(h, list, path, reverse) == SortSlice(h, list, path, reverse)

----------------------------------------------------------------------------
(* mongokit.Extract.  A value is a scalar or an array of scalars; a        *)
(* document (bson.D) is a sequence of entries key, value.  A query is a    *)
(* sequence of entries: a field with a plain value {a: v} (op ""), a field *)
(* with an operator {a: {$eq: v}}, {a: {$in: [..]}}, or a top level        *)
(* operator {$and: [..]}, {$or: [..]} with a list of queries.              *)

Scalar(v) == [array |-> FALSE, items |-> <<v>>]
Array(items) == [array |-> TRUE, items |-> items]
MissingValue == [array |-> FALSE, items |-> <<>>]

Paths == {"a", "b"}

\* bsonkit.Get on a bson.D
GetField(doc, path) ==
    IF \E i \in 1..Len(doc) : doc[i].key = path
    THEN doc[CHOOSE i \in 1..Len(doc) : doc[i].key = path].value
    ELSE MissingValue

\* bsonkit.Put(doc, path, v, false): sets the value at path, appending the
\* entry when the document has none
Put(doc, path, v) ==
    IF \E i \in 1..Len(doc) : doc[i].key = path
    THEN [doc |-> [i \in 1..Len(doc) |->
                      IF doc[i].key = path THEN [key |-> path, value |-> v] ELSE doc[i]],
          err |-> ""]
    ELSE [doc |-> Append(doc, [key |-> path, value |-> v]), err |-> ""]

\* the operator registries filled by init
TopLevelExtractOperators == {"$and", "$or"}
ExpressionExtractOperators == {"", "$eq", "$in"}

extractEq(doc, path, v) == Put(doc, path, v)

\* extractIn with the first element taken from every list that has one
extractIn_first(doc, path, list) ==
    IF Len(list) >= 1 THEN Put(doc, path, list[1])
    ELSE [doc |-> doc, err |-> ""]

extractIn(doc, path, list) ==
    IF Len(list) = 1 THEN Put(doc, path, list[1])
    ELSE [doc |-> doc, err |-> ""]

RECURSIVE Process(_, _, _, _)
RECURSIVE extractItems(_, _, _)

\* "extract all expressions": Process on every item of the list
extractItems(doc, list, i) ==
    IF i > Len(list) THEN [doc |-> doc, err |-> ""]
    ELSE LET r == Process(doc, list[i], FALSE, 1)
         IN IF r.err # "" THEN r ELSE extractItems(r.doc, list, i + 1)

\* v.(bson.A): the value v of a top level entry is a list, v.list, unless
\* v.vals holds a value that is no list
IsList(v) == v.vals = <<>>

extractAnd(doc, v) ==
    IF ~IsList(v) THEN [doc |-> doc, err |-> "$and: expected list"]
    ELSE IF Len(v.list) = 0 THEN [doc |-> doc, err |-> "$and: empty list"]
    ELSE extractItems(doc, v.list, 1)

\* extractOr without "check list" for more than one item
extractOr_all(doc, v) ==
    IF ~IsList(v) THEN [doc |-> doc, err |-> "$or: expected list"]
    ELSE IF Len(v.list) = 0 THEN [doc |-> doc, err |-> "$or: empty list"]
    ELSE extractItems(doc, v.list, 1)

extractOr(doc, v) ==
    IF ~IsList(v) THEN [doc |-> doc, err |-> "$or: expected list"]
    ELSE IF Len(v.list) = 0 THEN [doc |-> doc, err |-> "$or: empty list"]
    ELSE IF Len(v.list) > 1 THEN [doc |-> doc, err |-> ""]
    ELSE extractItems(doc, v.list, 1)

\* mongokit.Process with the extract registries: walks the entries of the
\* query in order and calls the operator registered for each
ProcessExpression(doc, e, root) ==
    IF e.key \notin Paths
    THEN IF e.key \notin TopLevelExtractOperators
         THEN [doc |-> doc, err |-> "unknown top level operator"]
         ELSE IF e.key = "$and" THEN extractAnd(doc, e) ELSE extractOr(doc, e)
    ELSE IF e.op \notin ExpressionExtractOperators
         THEN [doc |-> doc, err |-> "unknown expression operator"]
         ELSE IF e.op = "$in" THEN extractIn(doc, e.key, e.vals)
         ELSE extractEq(doc, e.key, e.vals[1])

Process(doc, query, root, i) ==
    IF i > Len(query) THEN [doc |-> doc, err |-> ""]
    ELSE LET r == ProcessExpression(doc, query[i], root)
         IN IF r.err # "" THEN r ELSE Process(r.doc, query, root, i + 1)

\* mongokit.Extract(query)
Extract(query) == Process(<<>>, query, TRUE, 1)

\* mongokit.Match: equality matches the value or an element of an array;
\* $in matches when one of its values does; $and when every query of its
\* list does, $or when one does
MatchValue(value, v) ==
    \/ value = v
    \/ value.array /\ ~v.array /\ Len(v.items) = 1 /\ v.items[1] \in Range(value.items)

RECURSIVE Match(_, _)
Match(doc, query) ==
    \A i \in 1..Len(query) :
        LET e == query[i]
        IN CASE e.key = "$and" ->
                    Len(e.list) > 0 /\ \A k \in 1..Len(e.list) : Match(doc, e.list[k])
             [] e.key = "$or" ->
                    Len(e.list) > 0 /\ \E k \in 1..Len(e.list) : Match(doc, e.list[k])
             [] e.op = "$in" ->
                    \E k \in 1..Len(e.vals) : MatchValue(GetField(doc, e.key), e.vals[k])
             [] OTHER -> MatchValue(GetField(doc, e.key), e.vals[1])

----------------------------------------------------------------------------
(* The functions called on their own, and delete on an engine that holds   *)
(* MaxLen documents                                                        *)

\* the lists of at most MaxLen of the documents 1..MaxLen
Lists == UNION { [1..k -> 1..MaxLen] : k \in 0..MaxLen }
Distinct(list) == \A i, j \in 1..Len(list) : i # j => list[i] # list[j]

SortCalls ==
    { [NoKitCall EXCEPT !.fn = "Sort", !.list = l, !.path = p, !.reverse = r] :
        l \in { x \in Lists : Distinct(x) }, p \in {"id", "x"}, r \in BOOLEAN }

\* Difference(a, b) for a of distinct documents or with a document twice,
\* and b of documents of a; it makes its result with capacity len(a) - len(b)
DifferenceCalls ==
    { [NoKitCall EXCEPT !.fn = "Difference", !.list = c[1], !.b = c[2]] :
        c \in { x \in Lists \X Lists :
                   /\ Len(x[2]) <= Len(x[1])
                   /\ Range(x[2]) \subseteq Range(x[1])
                   /\ Cardinality(Range(x[1])) >= Len(x[1]) - 1 } }

FieldEntry(path, op, vals) == [key |-> path, op |-> op, vals |-> vals, list |-> <<>>]
TopLevelEntry(name, list) == [key |-> name, op |-> "", vals |-> <<>>, list |-> list]

\* {a: 1}, {a: 2}, {a: {$eq: 2}}, {a: {$in: []}}, {a: {$in: [1]}},
\* {a: {$in: [1, 2]}}, and the same for b
FieldEntries ==
    { FieldEntry(p, c[1], c[2]) :
        p \in Paths,
        c \in { <<"", <<Scalar(1)>> >>, <<"", <<Scalar(2)>> >>, <<"$eq", <<Scalar(2)>> >>,
                <<"$in", <<>> >>, <<"$in", <<Scalar(1)>> >>,
                <<"$in", <<Scalar(1), Scalar(2)>> >> } }

\* the queries in the list of a $and or $or: {a: 1}, {a: 2}, {a: {$eq: 2}},
\* {b: {$in: []}}, {b: {$in: [1]}}, {b: {$in: [1, 2]}}
ItemQueries ==
    { <<e>> : e \in { x \in FieldEntries : (x.key = "b") <=> (x.op = "$in") } }

\* the lists of a $and or $or: at most MaxItems queries
ItemLists == UNION { [1..k -> ItemQueries] : k \in 0..MaxItems }

\* {$and: [..]}, {$or: [..]}, and {$and: 1}, {$or: 1} whose value is no list
TopLevelEntries ==
    { TopLevelEntry(n, l) : n \in TopLevelExtractOperators, l \in ItemLists }
    \cup { [TopLevelEntry(n, <<>>) EXCEPT !.vals = <<Scalar(1)>>] : n \in TopLevelExtractOperators }

\* the queries: one or two fields, a $and or $or, or one with a field
\* before or after it
ExtractQueries ==
    { <<e>> : e \in FieldEntries \cup TopLevelEntries }
    \cup { <<e, f>> : e \in { x \in FieldEntries : x.key = "a" },
                      f \in { x \in FieldEntries : x.key = "b" } }
    \cup { <<e, t>> : e \in FieldEntries, t \in TopLevelEntries }
    \cup { <<t, e>> : t \in TopLevelEntries, e \in FieldEntries }

ExtractCalls == { [NoKitCall EXCEPT !.fn = "Extract", !.query = q] : q \in ExtractQueries }

\* BulkWrite, "set variables": the opcode of a write model
OpcodeOf(model) ==
    CASE model = "InsertOneModel" -> "Insert"
      [] model = "ReplaceOneModel" -> "Replace"
      [] model \in {"UpdateOneModel", "UpdateManyModel"} -> "Update"
      [] model \in {"DeleteOneModel", "DeleteManyModel"} -> "Delete"

WriteModels == {"InsertOneModel", "ReplaceOneModel", "UpdateOneModel", "UpdateManyModel",
                "DeleteOneModel", "DeleteManyModel"}

\* BulkWrite, "collect results": the switch over ops[i].Opcode, i being Go's
\* index
collectResults(opcode, res, i, result) ==
    LET upserted == IF res.Upserted # NoDoc
                    THEN [result EXCEPT !.UpsertedCount = @ + 1,
                                        !.UpsertedIDs = { p \in @ : p[1] # i }
                                                        \cup {<<i, res.Upserted.id>>}]
                    ELSE result
    IN CASE opcode = "Insert" ->
              [result EXCEPT !.InsertedCount = @ + Len(res.Modified)]
         [] opcode \in {"Replace", "Update"} ->
              [upserted EXCEPT !.MatchedCount = @ + Len(res.Matched),
                               !.ModifiedCount = @ + Len(res.Modified)]
         [] opcode = "Delete" ->
              [result EXCEPT !.DeletedCount = @ + Len(res.Matched)]

\* applyBulkResults without the continue after a write error
RECURSIVE applyBulkResults_noContinue(_, _, _, _, _)
applyBulkResults_noContinue(models, results, p, result, errors) ==
    IF p > Len(results) THEN [result |-> result, errors |-> errors]
    ELSE applyBulkResults_noContinue(models, results, p + 1,
            collectResults(OpcodeOf(models[p]), results[p], p - 1, result),
            IF results[p].Error # ""
            THEN Append(errors, [Index |-> p - 1, Code |-> 0, Message |-> results[p].Error])
            ELSE errors)

\* BulkWrite, "apply bulk results": the loop from results[p - 1] in Go's
\* numbering
RECURSIVE applyBulkResults(_, _, _, _, _)
applyBulkResults(models, results, p, result, errors) ==
    IF p > Len(results) THEN [result |-> result, errors |-> errors]
    ELSE IF results[p].Error # ""
    THEN applyBulkResults(models, results, p + 1, result,
            Append(errors, [Index |-> p - 1, Code |-> 0, Message |-> results[p].Error]))
    ELSE applyBulkResults(models, results, p + 1,
            collectResults(OpcodeOf(models[p]), results[p], p - 1, result), errors)

\* Collection.BulkWrite. fail says which of the calls it makes returns an
\* error, a bsonkit.Transform or useTransaction; results is what the
\* transaction's Bulk returns
BulkWrite(models, fail, results) ==
    IF fail # "" THEN [out |-> NoBulkWriteResult, errors |-> <<>>, err |-> fail]
    ELSE LET r == applyBulkResults(models, results, 1, NoBulkWriteResult, <<>>)
         IN [out |-> r.result, errors |-> r.errors,
             err |-> IF Len(r.errors) > 0 THEN "write errors" ELSE ""]

\* findOneAndDoc with Matched and Modified taken for one another
findOneAndDoc_swapped(result, returnAfter) ==
    IF result.Upserted # NoDoc THEN (IF returnAfter THEN result.Upserted ELSE NoDoc)
    ELSE IF Len(result.Modified) > 0
         THEN (IF returnAfter THEN result.Matched[1] ELSE result.Modified[1])
         ELSE NoDoc

\* FindOneAndReplace and FindOneAndUpdate, "get doc"
findOneAndDoc(result, returnAfter) ==
    IF result.Upserted # NoDoc THEN (IF returnAfter THEN result.Upserted ELSE NoDoc)
    ELSE IF Len(result.Modified) > 0
         THEN (IF returnAfter THEN result.Modified[1] ELSE result.Matched[1])
         ELSE NoDoc

\* Collection.FindOneAndReplace and Collection.FindOneAndUpdate with
\* opt.Projection not set. fail says which of the calls it makes returns an
\* error; result is what the transaction's Replace or Update returns
FindOneAnd(fail, result, returnAfter) ==
    IF fail # "" THEN [doc |-> NoDoc, err |-> fail]
    ELSE [doc |-> findOneAndDoc(result, returnAfter), err |-> ""]

\* the Results handed to the facade: a failed one that still lists documents,
\* two documents matched and the first modified, an upsert, one document
\* matched and none modified, nothing matched
FailedResult == Result(<< Doc(1, 0) >>, << Doc(1, 1) >>, NoDoc, "duplicate")
ModifiedResult == Result(<< Doc(1, 0), Doc(2, 0) >>, << Doc(1, 1) >>, NoDoc, "")
UpsertedResult == Result(<<>>, <<>>, Doc(2, 1), "")
UnmodifiedResult == Result(<< Doc(1, 0) >>, <<>>, NoDoc, "")

Failures == {"", "transform", "transaction"}

\* a write model and the Result of its operation: every Result for the
\* models of one document, a Result that modified for those of many
BulkItems ==
    { <<m, r>> : m \in {"InsertOneModel", "ReplaceOneModel", "UpdateOneModel", "DeleteOneModel"},
                 r \in {FailedResult, ModifiedResult, UpsertedResult} }
    \cup { <<m, ModifiedResult>> : m \in {"UpdateManyModel", "DeleteManyModel"} }

BulkWriteCalls ==
    { [NoKitCall EXCEPT !.fn = "BulkWrite", !.models = [i \in 1..n |-> items[i][1]],
                        !.results = [i \in 1..n |-> items[i][2]]] :
        n \in 0..MaxItems, items \in [1..MaxItems -> BulkItems] }
    \cup { [NoKitCall EXCEPT !.fn = "BulkWrite", !.models = << "InsertOneModel" >>, !.fail = f] :
              f \in Failures \ {""} }

FindOneAndCalls ==
    { [NoKitCall EXCEPT !.fn = m, !.result = r, !.returnAfter = a, !.fail = f] :
        m \in {"FindOneAndReplace", "FindOneAndUpdate"},
        r \in {ModifiedResult, UpsertedResult, UnmodifiedResult, NoResult},
        a \in BOOLEAN,
        f \in Failures }

\* the catalogs of namespace a.c with the documents {_id: i, x: xs[i]}
KitCatalog(xs) == [k \in {<<"a", ".", "c">>} |-> [i \in 1..MaxLen |-> Doc(i, xs[i])]]

\* the engines created over these catalogs
KitEngines == { createEngine(KitCatalog(xs)) : xs \in [1..MaxLen -> XValues] }

\* the catalogs a store can hold over the namespaces a.c, a.d and ab.c: each
\* is absent, has no documents, or has the document {_id: 1, x: 0}
Catalogs ==
    UNION { [S -> { <<>>, << Doc(1, 0) >> }] : S \in SUBSET { NsSeq[i] : i \in DOMAIN NsSeq } }

\* the engines created over these catalogs
CatalogEngines == { createEngine(catalog) : catalog \in Catalogs }

\* the engine methods called on them
CatalogCalls ==
    { [NoKitCall EXCEPT !.fn = f] :
        f \in {"find", "insert", "delete", "replace", "update", "dropDatabase",
               "dropCollection", "listDatabases", "listCollections"} }

KitEngine(e, call) ==
    /\ heapData = e.heapData
    /\ heapNs = e.heapNs
    /\ heapDoc = e.heapDoc
    /\ data = e.data
    /\ stored = e.stored
    /\ kcall = call

InitKit ==
    /\ \/ \E e \in KitEngines,
             call \in SortCalls \cup { [NoKitCall EXCEPT !.fn = f] :
                                          f \in {"delete", "replace", "update"} } :
                KitEngine(e, call)
       \/ \E call \in DifferenceCalls \cup ExtractCalls \cup BulkWriteCalls \cup FindOneAndCalls :
             KitEngine(createEngine(KitCatalog([i \in 1..MaxLen |-> 0])), call)
       \/ \E e \in CatalogEngines, call \in CatalogCalls : KitEngine(e, call)
    /\ kret = NoKitCall
    /\ NoCollectionCall
    /\ last = NoCall
    /\ nops = 0
    /\ pc = [t \in 1..NumThreads |-> "idle"]
    /\ mutex = 0
    /\ top = [t \in 1..NumThreads |-> NoCall]
    /\ tclone = [t \in 1..NumThreads |-> Nil]
    /\ tret = [t \in 1..NumThreads |-> NoCall]

SortCall ==
    /\ kcall.fn = "Sort"
    /\ kret = NoKitCall
    /\ \E r \in Sort(H, kcall.list, kcall.path, kcall.reverse) :
          kret' = [NoKitCall EXCEPT !.fn = "Sort", !.list = r]
    /\ UNCHANGED <<engineVars, last, nops, threadVars, kcall, colVars>>

DifferenceCall ==
    /\ kcall.fn = "Difference"
    /\ kret = NoKitCall
    /\ kret' = [NoKitCall EXCEPT !.fn = "Difference", !.list = Difference(kcall.list, kcall.b)]
    /\ UNCHANGED <<engineVars, last, nops, threadVars, kcall, colVars>>

ExtractCall ==
    /\ kcall.fn = "Extract"
    /\ kret = NoKitCall
    /\ kret' = [NoKitCall EXCEPT !.fn = "Extract", !.doc = Extract(kcall.query).doc,
                                 !.err = Extract(kcall.query).err]
    /\ UNCHANGED <<engineVars, last, nops, threadVars, kcall, colVars>>

BulkWriteCall ==
    /\ kcall.fn = "BulkWrite"
    /\ kret = NoKitCall
    /\ LET r == BulkWrite(kcall.models, kcall.fail, kcall.results)
       IN kret' = [NoKitCall EXCEPT !.fn = "BulkWrite", !.out = r.out,
                                    !.errors = r.errors, !.err = r.err]
    /\ UNCHANGED <<engineVars, last, nops, threadVars, kcall, colVars>>

FindOneAndCall ==
    /\ kcall.fn \in {"FindOneAndReplace", "FindOneAndUpdate"}
    /\ kret = NoKitCall
    /\ LET r == FindOneAnd(kcall.fail, kcall.result, kcall.returnAfter)
       IN kret' = [NoKitCall EXCEPT !.fn = kcall.fn, !.doc = r.doc, !.err = r.err]
    /\ UNCHANGED <<engineVars, last, nops, threadVars, kcall, colVars>>

KitDelete ==
    /\ kcall.fn = "delete"
    /\ nops = 0
    /\ Delete

KitReplace ==
    /\ kcall.fn = "replace"
    /\ nops = 0
    /\ Replace

KitUpdate ==
    /\ kcall.fn = "update"
    /\ nops = 0
    /\ UpdateCall

KitFind ==
    /\ kcall.fn = "find"
    /\ nops = 0
    /\ Find

KitInsert ==
    /\ kcall.fn = "insert"
    /\ nops = 0
    /\ Insert

KitDropDatabase ==
    /\ kcall.fn = "dropDatabase"
    /\ nops = 0
    /\ DropDatabase

KitDropCollection ==
    /\ kcall.fn = "dropCollection"
    /\ nops = 0
    /\ DropCollection

ListDatabases ==
    /\ kcall.fn = "listDatabases"
    /\ kret = NoKitCall
    /\ \E query \in ListQueries : \E r \in listDatabases(H, query) :
          kret' = [NoKitCall EXCEPT !.fn = "listDatabases", !.q = query,
                                    !.list = r.list, !.err = r.err]
    /\ UNCHANGED <<engineVars, last, nops, threadVars, kcall, colVars>>

ListCollections ==
    /\ kcall.fn = "listCollections"
    /\ kret = NoKitCall
    /\ \E db \in DbNames, query \in ListQueries : \E r \in listCollections(H, db, query) :
          kret' = [NoKitCall EXCEPT !.fn = "listCollections", !.db = db, !.q = query,
                                    !.list = r.list, !.err = r.err]
    /\ UNCHANGED <<engineVars, last, nops, threadVars, kcall, colVars>>

NextKit ==
    \/ SortCall
    \/ DifferenceCall
    \/ ExtractCall
    \/ KitDelete
    \/ KitReplace
    \/ KitUpdate
    \/ BulkWriteCall
    \/ FindOneAndCall
    \/ KitFind
    \/ KitInsert
    \/ KitDropDatabase
    \/ KitDropCollection
    \/ ListDatabases
    \/ ListCollections

SpecKit == InitKit /\ [][NextKit]_vars

----------------------------------------------------------------------------
(* The write methods of Collection and the transactions of the Engine *)

\* the methods that begin a write transaction and then call useTransaction
BeginMethods == {"InsertOne", "InsertMany", "DeleteOne", "DeleteMany",
                 "ReplaceOne", "UpdateOne", "UpdateMany"}

\* the methods that only call useTransaction
UseMethods == {"BulkWrite", "FindOneAndReplace", "FindOneAndUpdate"}

Methods == BeginMethods \cup UseMethods \cup {"Drop"}

\* the Engine as one value
Engine == [txns |-> txns, writer |-> writer]

\* Engine.Begin(ctx, true) once the write mutex is free: the new transaction
\* is active and holds the write mutex
Begin(e) == [txns |-> Append(e.txns, "active"), writer |-> Len(e.txns) + 1]

\* Engine.Commit(txn): publishes and releases the write mutex
Commit(e, txn) ==
    IF e.txns[txn] # "active" THEN e
    ELSE [txns |-> [e.txns EXCEPT ![txn] = "committed"],
          writer |-> IF e.writer = txn THEN 0 ELSE e.writer]

\* Engine.Abort(txn): discards the clone and releases the write mutex; nothing
\* to do for a transaction that is not active
Abort(e, txn) ==
    IF e.txns[txn] # "active" THEN e
    ELSE [txns |-> [e.txns EXCEPT ![txn] = "aborted"],
          writer |-> IF e.writer = txn THEN 0 ELSE e.writer]

\* what the function handed to useTransaction can return: an error, a
\* result, a result with an Error (Insert), a result with Upserted (Replace,
\* Update)
FnOutcomes(method) ==
    {"error", "ok"}
    \cup (IF method \in {"InsertOne", "InsertMany"} THEN {"resultError"} ELSE {})
    \cup (IF method \in {"ReplaceOne", "UpdateOne", "UpdateMany"} THEN {"upserted"} ELSE {})

\* the method after useTransaction returned res: whether it goes on to
\* Engine.Commit(txn), and what it returns
afterUse(method, res) ==
    CASE method \in UseMethods -> [commit |-> FALSE, ret |-> "result"]
      [] method = "InsertOne" ->
            IF res = "resultError" THEN [commit |-> FALSE, ret |-> "error"]
            ELSE [commit |-> TRUE, ret |-> "result"]
      [] method = "InsertMany" ->
            [commit |-> TRUE, ret |-> IF res = "resultError" THEN "resultError" ELSE "result"]
      [] method \in {"DeleteOne", "DeleteMany"} -> [commit |-> TRUE, ret |-> "result"]
      [] method \in {"ReplaceOne", "UpdateOne", "UpdateMany"} ->
            IF res = "upserted" THEN [commit |-> FALSE, ret |-> "upserted"]
            ELSE [commit |-> TRUE, ret |-> "result"]
      [] method = "Drop" -> [commit |-> TRUE, ret |-> "result"]

\* the method returns ret
Returns(c, ret) == [col EXCEPT ![c].pc = "done", ![c].ret = ret]

InitCollection ==
    /\ heapData = LoadedEngine.heapData
    /\ heapNs = LoadedEngine.heapNs
    /\ heapDoc = LoadedEngine.heapDoc
    /\ data = LoadedEngine.data
    /\ stored = LoadedEngine.stored
    /\ last = NoCall
    /\ nops = 0
    /\ pc = [t \in 1..NumThreads |-> "idle"]
    /\ mutex = 0
    /\ top = [t \in 1..NumThreads |-> NoCall]
    /\ tclone = [t \in 1..NumThreads |-> Nil]
    /\ tret = [t \in 1..NumThreads |-> NoCall]
    /\ kcall = NoKitCall
    /\ kret = NoKitCall
    /\ NoCollectionCall

\* caller c calls a method of Collection
ColCall(c) ==
    /\ col[c].pc = "idle"
    /\ ncalls < MaxOps
    /\ \E m \in Methods, bad \in BOOLEAN :
          /\ m = "Drop" => ~bad
          /\ col' = [col EXCEPT ![c] =
                       [NoMethod EXCEPT !.method = m, !.bad = bad,
                                        !.pc = IF m \in UseMethods THEN "transform"
                                               ELSE "begin"]]
    /\ ncalls' = ncalls + 1
    /\ UNCHANGED <<engineVars, last, nops, threadVars, kitVars, txns, writer>>

\* "begin transaction": c.engine.Begin(ctx, true) returns the transaction
ColBegin(c) ==
    /\ col[c].pc = "begin"
    /\ writer = 0
    /\ txns' = Begin(Engine).txns
    /\ writer' = Begin(Engine).writer
    /\ col' = [col EXCEPT ![c].txn = Begin(Engine).writer,
                          ![c].pc = IF col[c].method = "Drop" THEN "drop" ELSE "transform"]
    /\ UNCHANGED <<engineVars, last, nops, threadVars, kitVars, ncalls>>

\* Engine.Begin returns an error, the context being cancelled: the method,
\* or useTransaction and then the method, returns it
ColCancelled(c) ==
    /\ col[c].pc \in {"begin", "use"}
    /\ col' = Returns(c, "error")
    /\ UNCHANGED <<engineVars, last, nops, threadVars, kitVars, txns, writer, ncalls>>

\* "transform filter", "transform document": the method returns the error of
\* bsonkit.Transform
ColTransform(c) ==
    /\ col[c].pc = "transform"
    /\ col' = IF col[c].bad THEN Returns(c, "error") ELSE [col EXCEPT ![c].pc = "use"]
    /\ UNCHANGED <<engineVars, last, nops, threadVars, kitVars, txns, writer, ncalls>>

\* useTransaction(ctx, c.engine, true, fn): begins its write transaction
ColUseBegin(c) ==
    /\ col[c].pc = "use"
    /\ writer = 0
    /\ txns' = Begin(Engine).txns
    /\ writer' = Begin(Engine).writer
    /\ col' = [col EXCEPT ![c].inner = Begin(Engine).writer, ![c].pc = "fn"]
    /\ UNCHANGED <<engineVars, last, nops, threadVars, kitVars, ncalls>>

\* useTransaction: fn(txn) returns; on an error the transaction is aborted
\* and the method returns the error
ColUseFn(c) ==
    /\ col[c].pc = "fn"
    /\ \E out \in FnOutcomes(col[c].method) :
          IF out = "error"
          THEN /\ txns' = Abort(Engine, col[c].inner).txns
               /\ writer' = Abort(Engine, col[c].inner).writer
               /\ col' = Returns(c, "error")
          ELSE /\ col' = [col EXCEPT ![c].res = out, ![c].pc = "ucommit"]
               /\ UNCHANGED <<txns, writer>>
    /\ UNCHANGED <<engineVars, last, nops, threadVars, kitVars, ncalls>>

\* useTransaction: commits its transaction, or aborts it when the commit is
\* rejected, and the method returns the error
ColUseCommit(c) ==
    /\ col[c].pc = "ucommit"
    /\ \E ok \in BOOLEAN :
          IF ok
          THEN /\ txns' = Commit(Engine, col[c].inner).txns
               /\ writer' = Commit(Engine, col[c].inner).writer
               /\ col' = [col EXCEPT ![c].pc = "after"]
          ELSE /\ txns' = Abort(Engine, col[c].inner).txns
               /\ writer' = Abort(Engine, col[c].inner).writer
               /\ col' = Returns(c, "error")
    /\ UNCHANGED <<engineVars, last, nops, threadVars, kitVars, ncalls>>

\* "get result", "check error", "check if upserted": the method returns or
\* goes on to commit its transaction
ColAfter(c) ==
    /\ col[c].pc = "after"
    /\ col' = IF afterUse(col[c].method, col[c].res).commit
              THEN [col EXCEPT ![c].pc = "commit"]
              ELSE Returns(c, afterUse(col[c].method, col[c].res).ret)
    /\ UNCHANGED <<engineVars, last, nops, threadVars, kitVars, txns, writer, ncalls>>

\* Drop, "drop namespace": txn.Drop(c.handle); on an error Drop returns it
\* and the deferred Engine.Abort(txn) runs
ColDrop(c) ==
    /\ col[c].pc = "drop"
    /\ \E ok \in BOOLEAN :
          IF ok
          THEN /\ col' = [col EXCEPT ![c].pc = "commit"]
               /\ UNCHANGED <<txns, writer>>
          ELSE /\ txns' = Abort(Engine, col[c].txn).txns
               /\ writer' = Abort(Engine, col[c].txn).writer
               /\ col' = Returns(c, "error")
    /\ UNCHANGED <<engineVars, last, nops, threadVars, kitVars, ncalls>>

\* "commit transaction": c.engine.Commit(txn), and the method returns. Only
\* Drop has deferred Engine.Abort(txn), which aborts when the commit was
\* rejected
ColCommit(c) ==
    /\ col[c].pc = "commit"
    /\ \E ok \in BOOLEAN :
          IF ok
          THEN /\ txns' = Commit(Engine, col[c].txn).txns
               /\ writer' = Commit(Engine, col[c].txn).writer
               /\ col' = Returns(c, afterUse(col[c].method, col[c].res).ret)
          ELSE /\ txns' = IF col[c].method = "Drop" THEN Abort(Engine, col[c].txn).txns
                          ELSE txns
               /\ writer' = IF col[c].method = "Drop" THEN Abort(Engine, col[c].txn).writer
                            ELSE writer
               /\ col' = Returns(c, "error")
    /\ UNCHANGED <<engineVars, last, nops, threadVars, kitVars, ncalls>>

\* the caller has the method's results and can call again
ColReturn(c) ==
    /\ col[c].pc = "done"
    /\ col' = [col EXCEPT ![c] = NoMethod]
    /\ UNCHANGED <<engineVars, last, nops, threadVars, kitVars, txns, writer, ncalls>>

NextCollection ==
    \E c \in Callers :
        \/ ColCall(c)
        \/ ColBegin(c)
        \/ ColCancelled(c)
        \/ ColTransform(c)
        \/ ColUseBegin(c)
        \/ ColUseFn(c)
        \/ ColUseCommit(c)
        \/ ColAfter(c)
        \/ ColDrop(c)
        \/ ColCommit(c)
        \/ ColReturn(c)

SpecCollection == InitCollection /\ [][NextCollection]_vars

----------------------------------------------------------------------------
(* Claims on the functions                                                 *)

\* the position of document d in list
PositionIn(list, d) == CHOOSE i \in 1..Len(list) : list[i] = d

\* C17: Sort returns the documents ordered by the value at path, descending
\* when reverse, and documents with equal values keep their input order
SortStable ==
    kret.fn = "Sort" =>
        /\ Len(kret.list) = Len(kcall.list)
        /\ Range(kret.list) = Range(kcall.list)
        /\ \A i, j \in 1..Len(kret.list) :
              i < j => IF kcall.reverse
                       THEN Get(H, kret.list[i], kcall.path) >= Get(H, kret.list[j], kcall.path)
                       ELSE Get(H, kret.list[i], kcall.path) <= Get(H, kret.list[j], kcall.path)
        /\ \A i, j \in 1..Len(kcall.list) :
              (i < j /\ Get(H, kcall.list[i], kcall.path) = Get(H, kcall.list[j], kcall.path))
                  => PositionIn(kret.list, kcall.list[i]) < PositionIn(kret.list, kcall.list[j])

\* the elements of b appear in a in the same relative order
RECURSIVE InOrder(_, _)
InOrder(b, a) ==
    IF b = <<>> THEN TRUE
    ELSE IF a = <<>> THEN FALSE
    ELSE IF Head(b) = Head(a) THEN InOrder(Tail(b), Tail(a))
    ELSE InOrder(b, Tail(a))

\* the elements of a that are not in b, in the order of a
NotIn(a, b) == SelectSeq(a, LAMBDA d : d \notin Range(b))

\* C18: for a of pairwise distinct documents and b in the order of a,
\* Difference(a, b) is the elements of a not in b, in the order of a, and
\* len(a) - len(b) long; and delete calls Difference with such a and b
DifferencePrecondition ==
    [][/\ (kret'.fn = "Difference" /\ kret.fn = "none"
              /\ Distinct(kcall.list) /\ InOrder(kcall.b, kcall.list)) =>
            /\ kret'.list = NotIn(kcall.list, kcall.b)
            /\ Len(kret'.list) = Len(kcall.list) - Len(kcall.b)
       /\ (last'.op = "delete" /\ nops' = nops + 1 /\ NsOf(H, data, last'.ns) # Nil
              /\ Filter(H, DocumentsOf(H, data, last'.ns), last'.q, last'.lim).err = "") =>
            LET a == DocumentsOf(H, data, last'.ns)
                b == Filter(H, a, last'.q, last'.lim).list
            IN /\ Distinct(a)
               /\ InOrder(b, a)
               /\ Len(b) <= Len(a)
               /\ last'.store = "ok" =>
                     /\ DocumentsOf(H', data', last'.ns) = NotIn(a, b)
                     /\ Len(DocumentsOf(H', data', last'.ns)) = Len(a) - Len(b)
      ]_vars

\* Difference took the first and the last of three documents away
DifferencePreconditionWitness ==
    /\ kret.fn = "Difference"
    /\ kcall.list = <<2, 1, 3>>
    /\ kcall.b = <<2, 3>>
    /\ kret.list = <<1>>

\* the query is built of equality on a path, $in with one element and $and
RECURSIVE EqAndIn(_)
EqAndIn(query) ==
    \A i \in 1..Len(query) :
        IF query[i].key \in Paths
        THEN \/ query[i].op \in {"", "$eq"}
             \/ query[i].op = "$in" /\ Len(query[i].vals) = 1
        ELSE /\ query[i].key = "$and"
             /\ Len(query[i].list) > 0
             /\ \A k \in 1..Len(query[i].list) : EqAndIn(query[i].list[k])

\* the documents with fields a and b: each absent, 1, 2 or the array [1, 2]
KitDocuments ==
    { SelectSeq(<< [key |-> "a", value |-> f["a"]], [key |-> "b", value |-> f["b"]] >>,
                LAMBDA e : e.value # MissingValue) :
        f \in [Paths -> {MissingValue, Scalar(1), Scalar(2), Array(<<1, 2>>)}] }

\* C19: for a query of equality, $and and $in with one element that some
\* document satisfies, Extract succeeds and the document it returns
\* matches the query
ExtractRoundTrip ==
    (kret.fn = "Extract" /\ EqAndIn(kcall.query)
        /\ \E d \in KitDocuments : Match(d, kcall.query)) =>
            /\ kret.err = ""
            /\ Match(kret.doc, kcall.query)

\* the constraints of a query by a plain value, $eq or $in with one
\* element, in the order of the query: at the top level and in the queries
\* of a $and, and when withOr also in the query of a $or that has one
RECURSIVE Constraints(_, _)
RECURSIVE ConstraintsOfList(_, _)
ConstraintsOfList(list, withOr) ==
    IF list = <<>> THEN <<>>
    ELSE Constraints(Head(list), withOr) \o ConstraintsOfList(Tail(list), withOr)

Constraints(query, withOr) ==
    IF query = <<>> THEN <<>>
    ELSE LET e == Head(query)
             own == CASE e.key \in Paths /\ e.op \in {"", "$eq"} ->
                            << [path |-> e.key, value |-> e.vals[1]] >>
                      [] e.key \in Paths /\ e.op = "$in" /\ Len(e.vals) = 1 ->
                            << [path |-> e.key, value |-> e.vals[1]] >>
                      [] e.key = "$and" -> ConstraintsOfList(e.list, withOr)
                      [] e.key = "$or" /\ withOr /\ Len(e.list) = 1 ->
                            Constraints(e.list[1], withOr)
                      [] OTHER -> <<>>
         IN own \o Constraints(Tail(query), withOr)

\* every $and and $or of the query has a list, and one that is not empty
NoEmptyList(query) ==
    \A i \in 1..Len(query) : query[i].key \notin Paths => Len(query[i].list) > 0

\* the paths a document has
PathsOf(doc) == { doc[i].key : i \in 1..Len(doc) }

RECURSIVE WithoutOr(_)
WithoutOr(query) ==
    IF query = <<>> THEN <<>>
    ELSE (IF Head(query).key # "$or" THEN <<Head(query)>>
          ELSE IF Len(Head(query).list) = 1 THEN Head(query).list[1]
          ELSE <<>>) \o WithoutOr(Tail(query))

\* C21: a $or with one element contributes what that element contributes,
\* a $or with two or more elements contributes nothing and is no error, and
\* a $or that is empty or no list is an error
ExtractOrConservative ==
    (kret.fn = "Extract" /\ \E i \in 1..Len(kcall.query) : kcall.query[i].key = "$or") =>
        IF \E i \in 1..Len(kcall.query) :
              /\ kcall.query[i].key = "$or"
              /\ (~IsList(kcall.query[i]) \/ Len(kcall.query[i].list) = 0)
        THEN kret.err # ""
        ELSE /\ kret.err = Extract(WithoutOr(kcall.query)).err
             /\ kret.doc = Extract(WithoutOr(kcall.query)).doc
             /\ (\A i \in 1..Len(kcall.query) : kcall.query[i].key # "$and") => kret.err = ""

\* Extract of {$or: [{a: 1}, {b: {$in: [1]}}], a: 2} returned {a: 2}
ExtractOrConservativeWitness ==
    /\ kret.fn = "Extract"
    /\ kcall.query = << TopLevelEntry("$or", << <<FieldEntry("a", "", <<Scalar(1)>>)>>,
                                                <<FieldEntry("b", "$in", <<Scalar(1)>>)>> >>),
                        FieldEntry("a", "", <<Scalar(2)>>) >>
    /\ kret.err = ""
    /\ kret.doc = << [key |-> "a", value |-> Scalar(2)] >>

\* the documents a call with this query and limit selects in namespace ns
SelectedOf(h, ns, q, limit) == FirstN(MatchingOf(h, DocumentsOf(h, h.data, ns), q), limit)

\* C29: a delete removes the documents that match the query, the first
\* limit of them when limit > 0, returns their number, and leaves the other
\* documents as they were and in their order
DeleteExact ==
    [][(last'.op = "delete" /\ nops' = nops + 1 /\ last'.err = "") =>
        LET a == DocumentsOf(H, data, last'.ns)
            sel == SelectedOf(H, last'.ns, last'.q, last'.lim)
        IN /\ last'.n = Len(sel)
           /\ DocumentsOf(H', data', last'.ns) = NotIn(a, sel)
           /\ ContentsOf(H', DocumentsOf(H', data', last'.ns)) = ContentsOf(H, NotIn(a, sel))
           /\ \A d \in Range(sel) :
                 ~\E e \in heapNs'[NsOf(H', data', last'.ns)].primaryIndex : e.doc = d
      ]_vars

\* a delete with limit 1 removed the first of the documents with x = 1 and
\* left another
DeleteExactWitness ==
    /\ last.op = "delete"
    /\ last.err = ""
    /\ last.q = [f |-> "x", v |-> 1]
    /\ last.lim = 1
    /\ last.n = 1
    /\ Len(DocumentsOf(H, data, last.ns)) = MaxLen - 1
    /\ \E d \in Range(DocumentsOf(H, data, last.ns)) : heapDoc[d].x = 1

\* C30: a successful replace or update leaves the number of documents as it
\* was, puts each new document at the position of the document it replaces,
\* leaves every other document as the same object at its position, and
\* update returns matched = modified = the number of documents selected
ReplaceUpdateKeepPositions ==
    [][(last'.op \in {"replace", "update"} /\ nops' = nops + 1 /\ last'.err = "") =>
        LET a == DocumentsOf(H, data, last'.ns)
            after == DocumentsOf(H', data', last'.ns)
            sel == SelectedOf(H, last'.ns, last'.q, last'.lim)
        IN /\ Len(after) = Len(a)
           /\ \A p \in 1..Len(a) :
                 IF a[p] \in Range(sel)
                 THEN /\ after[p] \notin Range(a)
                      /\ heapDoc'[after[p]]
                            = IF last'.op = "replace" THEN last'.docs[1]
                              ELSE ApplyUpdate(heapDoc[a[p]], last'.upd)
                 ELSE /\ after[p] = a[p]
                      /\ heapDoc'[after[p]] = heapDoc[a[p]]
           /\ last'.matched = Len(sel)
           /\ last'.modified = Len(sel)
      ]_vars

\* an update changed the second of the documents only
ReplaceUpdateKeepPositionsWitness ==
    /\ last.op = "update"
    /\ last.err = ""
    /\ last.q = [f |-> "id", v |-> 2]
    /\ last.upd = [op |-> "set", f |-> "x", v |-> 1]
    /\ last.matched = 1
    /\ Len(DocumentsOf(H, data, last.ns)) = MaxLen
    /\ \A p \in 1..MaxLen :
          heapDoc[DocumentsOf(H, data, last.ns)[p]] = Doc(p, IF p = 2 THEN 1 ELSE 0)

\* C27: FindOneAndReplace and FindOneAndUpdate return, when the operation
\* upserted, the upserted document with ReturnDocument = After and no document
\* otherwise; when a document was matched and modified, Matched[0], and
\* Modified[0] with ReturnDocument = After; no document when nothing matched
\* and nothing was upserted
FindOneAndSelection ==
    (kret.fn \in {"FindOneAndReplace", "FindOneAndUpdate"} /\ kret.err = "") =>
        LET r == kcall.result
        IN /\ r.Upserted # NoDoc =>
                 kret.doc = IF kcall.returnAfter THEN r.Upserted ELSE NoDoc
           /\ (r.Upserted = NoDoc /\ Len(r.Matched) > 0 /\ Len(r.Modified) > 0) =>
                 kret.doc = IF kcall.returnAfter THEN r.Modified[1] ELSE r.Matched[1]
           /\ (r.Upserted = NoDoc /\ Len(r.Matched) = 0) => kret.doc = NoDoc

\* FindOneAndUpdate returned the document as it was before the update
FindOneAndSelectionWitness ==
    /\ kret.fn = "FindOneAndUpdate"
    /\ kret.err = ""
    /\ kcall.result = ModifiedResult
    /\ ~kcall.returnAfter
    /\ kret.doc = Doc(1, 0)

\* the sum of f over the set S of arguments
RECURSIVE SumOver(_, _)
SumOver(S, f) ==
    IF S = {} THEN 0
    ELSE LET i == CHOOSE i \in S : TRUE IN f[i] + SumOver(S \ {i}, f)

NoLeakedWriteTransaction ==
    \A c \in Callers :
        (col[c].pc = "done" /\ col[c].txn # 0) =>
            /\ txns[col[c].txn] \in {"committed", "aborted"}
            /\ writer # col[c].txn

\* C24: a write method of Collection never asks useTransaction for a write
\* transaction while the transaction it began itself holds the write mutex,
\* a wait that nothing ends
NoSelfDeadlock ==
    \A c \in Callers :
        ~(col[c].pc = "use" /\ col[c].txn # 0 /\ writer = col[c].txn)

\* C31: find, replace, update and delete on a namespace that does not exist
\* return an empty result (no documents, zero counts) and no error, do not
\* call the store, do not create the namespace and leave the current catalog
\* as it was; a call after which the catalog has a namespace it did not have
\* is an insert that succeeded
MissingNamespaceNoEffect ==
    [][/\ (/\ last'.op \in {"find", "replace", "update", "delete"}
           /\ nops' = nops + 1
           /\ NsOf(H, data, last'.ns) = Nil)
          => /\ last'.err = ""
             /\ last'.out = <<>>
             /\ last'.matched = 0 /\ last'.modified = 0 /\ last'.n = 0
             /\ last'.store = "none"
             /\ NsOf(H', data', last'.ns) = Nil
             /\ data' = data
             /\ View(H', data') = View(H, data)
             /\ stored' = stored
       /\ (nops' = nops + 1 /\ \E ns \in DOMAIN heapData'[data'] : ns \notin DOMAIN heapData[data])
          => /\ last'.op = "insert"
             /\ last'.err = ""
             /\ last'.store = "ok"
             /\ DOMAIN heapData'[data'] = DOMAIN heapData[data] \cup {last'.ns}
      ]_vars

\* a replace with a replacement that has no _id and a query with an unknown
\* operator returned no error on a namespace the catalog, which has other
\* namespaces, does not have
MissingNamespaceNoEffectWitness ==
    /\ last.op = "replace"
    /\ NsOf(H, data, last.ns) = Nil
    /\ DOMAIN heapData[data] # {}
    /\ last.docs = << Doc(Missing, 1) >>
    /\ last.q.f = "bad"
    /\ last.err = ""

\* the collection component of a namespace name: what follows its first "."
CollectionOf(ns) == SubSeq(ns, Len(SplitHead(ns)) + 2, Len(ns))

\* C32: with the query {} listCollections(db) has one entry for every
\* namespace whose database component is db, named by the collection
\* component of the namespace, and no other entry
ListCollectionsExact ==
    (kret.fn = "listCollections" /\ kret.q.f = "all") =>
        LET K == { ns \in DOMAIN heapData[data] : SplitHead(ns) = kret.db }
        IN /\ kret.err = ""
           /\ Len(kret.list) = Cardinality(K)
           /\ { kret.list[i].name : i \in DOMAIN kret.list } = { CollectionOf(ns) : ns \in K }

\* C33: dropDatabase(name) removes the namespaces whose database component
\* is name and no other, dropCollection(ns) removes the namespace ns and no
\* other; every namespace that is left is the object it was, with its
\* documents, their contents and its primary index; a drop of a database or
\* collection that does not exist changes nothing; no drop returns an error
DropFrame ==
    [][(last'.op \in {"dropDatabase", "dropCollection"} /\ nops' = nops + 1) =>
        LET gone == IF last'.op = "dropDatabase"
                    THEN { ns \in DOMAIN heapData[data] : SplitHead(ns) = last'.ns }
                    ELSE { ns \in DOMAIN heapData[data] : ns = last'.ns }
        IN /\ last'.err = ""
           /\ DOMAIN heapData'[data'] = DOMAIN heapData[data] \ gone
           /\ \A ns \in DOMAIN heapData'[data'] : View(H', data')[ns] = View(H, data)[ns]
           /\ gone = {} => /\ data' = data
                           /\ View(H', data') = View(H, data)
                           /\ stored' = stored
      ]_vars

\* dropDatabase("a") on an engine created over a.c, a.d and ab.c, each with a
\* document, left ab.c with its document and nothing else
DropFrameWitness ==
    /\ last.op = "dropDatabase"
    /\ last.ns = <<"a">>
    /\ DOMAIN stored = { NsSeq[i] : i \in DOMAIN NsSeq }
    /\ \A ns \in DOMAIN stored : Len(stored[ns]) = 1
    /\ DOMAIN heapData[data] = { <<"a", "b", ".", "c">> }
    /\ ContentsOf(H, DocumentsOf(H, data, <<"a", "b", ".", "c">>)) = << Doc(1, 0) >>

\* the database names that occur among the namespaces of the catalog
DatabasesOf(h, d) == { SplitHead(ns) : ns \in DOMAIN h.heapData[d] }

\* C34: with the query {} listDatabases has exactly one entry for every
\* database name that occurs among the namespaces, its empty is true iff
\* every namespace of the database has no documents, and its sizeOnDisk is
\* the same value, 42, in every entry of every listing
ListDatabasesExact ==
    (kret.fn = "listDatabases" /\ kret.q.f = "all") =>
        /\ kret.err = ""
        /\ Len(kret.list) = Cardinality(DatabasesOf(H, data))
        /\ { kret.list[i].name : i \in DOMAIN kret.list } = DatabasesOf(H, data)
        /\ \A i \in DOMAIN kret.list :
              /\ kret.list[i].sizeOnDisk = 42
              /\ kret.list[i].empty <=>
                    \A ns \in DOMAIN heapData[data] :
                       SplitHead(ns) = kret.list[i].name => DocumentsOf(H, data, ns) = <<>>

\* the listing of a catalog in which a.c has no documents and a.d has one, and
\* ab.c has none: database a is not empty and database ab is
ListDatabasesExactWitness ==
    /\ kret.fn = "listDatabases"
    /\ kret.q.f = "all"
    /\ DocumentsOf(H, data, <<"a", ".", "c">>) = <<>>
    /\ Len(DocumentsOf(H, data, <<"a", ".", "d">>)) = 1
    /\ <<"a", ".", "c">> \in DOMAIN heapData[data]
    /\ <<"a", "b", ".", "c">> \in DOMAIN heapData[data]
    /\ kret.list = << [name |-> <<"a", "b">>, sizeOnDisk |-> 42, empty |-> TRUE],
                      [name |-> <<"a">>, sizeOnDisk |-> 42, empty |-> FALSE] >>

====
